---- MODULE Spec2Model ----
(***************************************************************************)
(* Removal Strategy Engine and Batch Orchestrator of the newsletter        *)
(* unsubscriber (src/src/unsubscriber.py) together with the /unsubscribe   *)
(* route that calls them (src/src/app.py).                                 *)
(*                                                                         *)
(* Every request r runs batch_unsubscribe on its own list; all locals of   *)
(* the Python functions are per-request, hence every variable is a         *)
(* function over Requests.                                                 *)
(***************************************************************************)
EXTENDS Integers, Sequences, FiniteSets, TLC

\* ------------------------------------------------------------------------
\* Bounds of the model
\* ------------------------------------------------------------------------
MaxBatch == 2

\* clicks of one attempt that the model follows
MaxClicks == 2

\* ------------------------------------------------------------------------
\* Program constants
\* ------------------------------------------------------------------------
RATE_LIMIT_DELAY == 2

\* number of entries of unsubscribe_patterns
NumPatterns == 11

Requests == {"r1", "r2"}

\* ------------------------------------------------------------------------
\* Links.  A link is described by what the code looks at:
\*   scheme    what startswith('mailto:') / startswith(('http://','https://'))
\*             see: "mailto", "http" or "other"
\*   pattern   re.search of one of expiration_patterns succeeds
\*   param     the first value of an exp / expires / valid_until query
\*             parameter: "absent", "past", "future" or "unparsable"
\*   parseable urlparse(url) returns (FALSE: it raises ValueError,
\*             e.g. 'Invalid IPv6 URL' for an unbalanced '[' in the netloc)
\*   target    what re.match(r'mailto:([^?]+)') captures: the address before
\*             any '?'; "" when there is no match
\*   domain    what urlparse(url).netloc contains: "login" for an entry of
\*             LOGIN_REQUIRED_DOMAINS, "common" for an entry of
\*             common_newsletter_domains, "other" else
\* ------------------------------------------------------------------------
NoLink ==
  [id |-> "None", scheme |-> "none", pattern |-> FALSE, param |-> "absent", parseable |-> TRUE,
   target |-> "", domain |-> "other"]

LinkHttps ==
  [id |-> "https://a.com/u", scheme |-> "http", pattern |-> FALSE, param |-> "absent", parseable |-> TRUE,
   target |-> "", domain |-> "other"]

LinkPast ==
  [id |-> "https://a.com/u?exp=1", scheme |-> "http", pattern |-> TRUE, param |-> "past", parseable |-> TRUE,
   target |-> "", domain |-> "other"]

LinkBadUrl ==
  [id |-> "http://[expired/u", scheme |-> "http", pattern |-> TRUE, param |-> "absent", parseable |-> FALSE,
   target |-> "", domain |-> "other"]

LinkMailto ==
  [id |-> "mailto:u@a.com", scheme |-> "mailto", pattern |-> FALSE, param |-> "absent", parseable |-> TRUE,
   target |-> "u@a.com", domain |-> "other"]

LinkFtp ==
  [id |-> "ftp://a.com/u", scheme |-> "other", pattern |-> FALSE, param |-> "absent", parseable |-> TRUE,
   target |-> "", domain |-> "other"]

Links == {NoLink, LinkHttps, LinkPast, LinkBadUrl, LinkMailto, LinkFtp}

\* further links, for the runs with one candidate
LinkFuture ==
  [id |-> "https://a.com/u?exp=9999999999", scheme |-> "http", pattern |-> TRUE, param |-> "future", parseable |-> TRUE,
   target |-> "", domain |-> "other"]

LinkUnparsable ==
  [id |-> "https://a.com/u?exp=1x", scheme |-> "http", pattern |-> TRUE, param |-> "unparsable", parseable |-> TRUE,
   target |-> "", domain |-> "other"]

LinkExpiredWord ==
  [id |-> "https://a.com/expired/u", scheme |-> "http", pattern |-> TRUE, param |-> "absent", parseable |-> TRUE,
   target |-> "", domain |-> "other"]

LinkNegative ==
  [id |-> "https://a.com/u?exp=-5", scheme |-> "http", pattern |-> FALSE, param |-> "past", parseable |-> TRUE,
   target |-> "", domain |-> "other"]

LinkMailtoQuery ==
  [id |-> "mailto:u@a.com?subject=unsubscribe", scheme |-> "mailto", pattern |-> FALSE, param |-> "absent", parseable |-> TRUE,
   target |-> "u@a.com", domain |-> "other"]

LinkMailtoEmpty ==
  [id |-> "mailto:?subject=unsubscribe", scheme |-> "mailto", pattern |-> FALSE, param |-> "absent", parseable |-> TRUE,
   target |-> "", domain |-> "other"]

LinkMailtoPast ==
  [id |-> "mailto:u@a.com?exp=1", scheme |-> "mailto", pattern |-> TRUE, param |-> "past", parseable |-> TRUE,
   target |-> "u@a.com", domain |-> "other"]

LinkMailtoBad ==
  [id |-> "mailto://[x", scheme |-> "mailto", pattern |-> FALSE, param |-> "absent", parseable |-> FALSE,
   target |-> "//[x", domain |-> "other"]

LinkLoginDomain ==
  [id |-> "https://medium.com/u", scheme |-> "http", pattern |-> FALSE, param |-> "absent", parseable |-> TRUE,
   target |-> "", domain |-> "login"]

LinkCommonDomain ==
  [id |-> "https://x.mailchimp.com/u", scheme |-> "http", pattern |-> FALSE, param |-> "absent", parseable |-> TRUE,
   target |-> "", domain |-> "common"]

LinkBadPast ==
  [id |-> "http://[a/u?exp=1", scheme |-> "http", pattern |-> TRUE, param |-> "past", parseable |-> FALSE,
   target |-> "", domain |-> "other"]

\* the links of the runs with one candidate
WideLinks ==
  Links \cup {LinkFuture, LinkUnparsable, LinkExpiredWord, LinkNegative, LinkBadPast,
              LinkMailtoQuery, LinkMailtoEmpty, LinkMailtoPast}

\* the links handed to the difficulty classifier
ClassLinks ==
  {NoLink, LinkHttps, LinkLoginDomain, LinkCommonDomain, LinkMailto, LinkMailtoBad,
   LinkBadUrl, LinkFtp}

\* a candidate: sender_email is the address (an identity), sender_domain says
\* whether its domain is an entry of LOGIN_REQUIRED_DOMAINS
NewsletterData(l, k, m, d) ==
  [unsubscribe_link |-> l, sender_email |-> k, unsubscribe_method |-> m, sender_domain |-> d]

\* candidate k of a list: sender_email identifies the position in the input
Candidate(l, k) ==
  NewsletterData(l, k, IF l.id = "None" THEN "none" ELSE "header", "other")

\* all newsletter lists of length n
ListsOfLen(n) ==
  { [k \in 1..n |-> Candidate(f[k], k)] : f \in [1..n -> Links] }

Batches == UNION { ListsOfLen(n) : n \in 0..MaxBatch }

\* ------------------------------------------------------------------------
\* Outcomes
\* ------------------------------------------------------------------------
Result(s, m, msg, url) ==
  [success |-> s, method |-> m, message |-> msg, unsubscribe_url |-> url]

\* Python's None where a result dictionary is expected
NoneResult == Result(FALSE, "None", "None", "None")

Methods ==
  {"header", "browser", "manual_action_needed", "login_required", "captcha", "timeout", "failed"}

\* ------------------------------------------------------------------------
\* _is_link_expired: "raise" when urlparse raises, else TRUE / FALSE
\* ------------------------------------------------------------------------
_is_link_expired(l) ==
  IF ~l.pattern THEN "false"
  ELSE IF ~l.parseable THEN "raise"
  ELSE IF l.param = "past" THEN "true"
  ELSE "false"

\* ------------------------------------------------------------------------
\* _unsubscribe_mailto: instructions only, no email is sent; a link without
\* an address is 'Invalid mailto: format'
\* ------------------------------------------------------------------------
\* variant: the message names the whole link
_unsubscribe_mailto_Mutant(l) ==
  IF l.target = "" THEN Result(FALSE, "failed", "invalid mailto", l.id)
  ELSE Result(FALSE, "manual_action_needed", l.id, l.id)

\* the message names the captured address: 'Please send an email to
\* {to_email} with subject "unsubscribe"' is written as that address
_unsubscribe_mailto(l) ==
  IF l.target = "" THEN Result(FALSE, "failed", "invalid mailto", l.id)
  ELSE Result(FALSE, "manual_action_needed", l.target, l.id)

\* ------------------------------------------------------------------------
\* unsubscribe_from_newsletter, up to the first network action:
\* "raise", "http" (go on with _unsubscribe_http) or a final result
\* ------------------------------------------------------------------------
\* variant: a mailto link is handed to the HTTP path
Dispatch_Mutant(l) ==
  IF l = NoLink THEN [to |-> "return", result |-> Result(FALSE, "failed", "no link", "None")]
  ELSE IF _is_link_expired(l) = "raise" THEN [to |-> "raise", result |-> NoneResult]
  ELSE IF _is_link_expired(l) = "true"
    THEN [to |-> "return", result |-> Result(FALSE, "failed", "expired", l.id)]
  ELSE IF l.scheme \in {"http", "mailto"} THEN [to |-> "http", result |-> NoneResult]
  ELSE [to |-> "return", result |-> Result(FALSE, "failed", "unsupported", l.id)]

Dispatch(l) ==
  IF l = NoLink THEN [to |-> "return", result |-> Result(FALSE, "failed", "no link", "None")]
  ELSE IF _is_link_expired(l) = "raise" THEN [to |-> "raise", result |-> NoneResult]
  ELSE IF _is_link_expired(l) = "true"
    THEN [to |-> "return", result |-> Result(FALSE, "failed", "expired", l.id)]
  ELSE IF l.scheme = "mailto" THEN [to |-> "return", result |-> _unsubscribe_mailto(l)]
  ELSE IF l.scheme = "http" THEN [to |-> "http", result |-> NoneResult]
  ELSE [to |-> "return", result |-> Result(FALSE, "failed", "unsupported", l.id)]

\* ------------------------------------------------------------------------
\* Pages, as seen by the detectors
\* ------------------------------------------------------------------------
Page(lu, pw, lt, at, kd, ce, sk, cap, pt, cb) ==
  [login_url |-> lu, password_input |-> pw, login_text |-> lt, auth_text |-> at,
   known_domain |-> kd, confirm_text |-> ce, success_kw |-> sk, captcha |-> cap,
   prefs_text |-> pt, checkboxes |-> cb]

PagePlain    == Page(FALSE, FALSE, FALSE, FALSE, FALSE, FALSE, FALSE, FALSE, FALSE, 0)
PageDone     == Page(FALSE, FALSE, FALSE, FALSE, FALSE, FALSE, TRUE,  FALSE, FALSE, 0)
PageLogin    == Page(FALSE, TRUE,  FALSE, FALSE, FALSE, FALSE, FALSE, FALSE, FALSE, 0)
PageConfirm  == Page(FALSE, FALSE, FALSE, FALSE, FALSE, TRUE,  FALSE, FALSE, FALSE, 0)
PageCaptcha  == Page(FALSE, FALSE, FALSE, FALSE, FALSE, FALSE, FALSE, TRUE,  FALSE, 0)
PagePrefs    == Page(FALSE, FALSE, FALSE, FALSE, FALSE, FALSE, FALSE, FALSE, TRUE,  4)
PageDoneLogin == Page(FALSE, FALSE, TRUE,  FALSE, FALSE, FALSE, TRUE,  FALSE, FALSE, 0)
PageDoneConfirm == Page(FALSE, FALSE, FALSE, FALSE, FALSE, TRUE, TRUE, FALSE, FALSE, 0)
PagePrefsFew == Page(FALSE, FALSE, FALSE, FALSE, FALSE, FALSE, FALSE, FALSE, TRUE,  3)

\* what the server may answer to requests.get / requests.post
Response(k, st, pg) == [kind |-> k, status |-> st, page |-> pg]

NoResponse == Response("none", 0, PagePlain)

HttpResponses ==
  { Response("response", 200, pg) :
      pg \in {PagePlain, PageDone, PageLogin, PageConfirm, PageDoneLogin, PageDoneConfirm} }
    \cup { Response("response", st, PagePlain) : st \in {404, 429, 503} }
    \cup { Response("Timeout", 0, PagePlain), Response("RequestException", 0, PagePlain) }

\* what the browser may show after driver.get
BrowserPages == {PagePlain, PageLogin, PageCaptcha, PagePrefs}

\* ------------------------------------------------------------------------
\* Detectors
\* ------------------------------------------------------------------------
_requires_login(pg) ==
  pg.login_url \/ pg.password_input \/ pg.login_text \/ pg.auth_text \/ pg.known_domain

_detect_login_page(pg) ==
  pg.login_url \/ pg.password_input \/ pg.login_text

_detect_captcha(pg) == pg.captcha

_detect_complex_flow(pg) == pg.prefs_text /\ pg.checkboxes > 3

\* ------------------------------------------------------------------------
\* _unsubscribe_http: the result for the answer rsp to the one request
\* ------------------------------------------------------------------------
RateLimited(rsp) == rsp.kind = "response" /\ rsp.status \in {429, 503}

\* variant: the confirmation phrasing is looked for before the login
\* indicators
_unsubscribe_http_Reordered(l, rsp) ==
  IF rsp.kind = "Timeout" THEN Result(FALSE, "timeout", "request timed out", l.id)
  ELSE IF rsp.kind = "RequestException" THEN Result(FALSE, "failed", "network error", l.id)
  ELSE IF RateLimited(rsp) THEN Result(FALSE, "failed", "rate limited", l.id)
  ELSE IF 200 <= rsp.status /\ rsp.status < 400
    THEN IF rsp.page.confirm_text
           THEN Result(FALSE, "manual_action_needed", "confirmation email", l.id)
         ELSE IF _requires_login(rsp.page)
           THEN Result(FALSE, "login_required", "login required", l.id)
         ELSE IF rsp.page.success_kw
           THEN Result(TRUE, "header", "unsubscribed via http", l.id)
         ELSE Result(TRUE, "header", "confirmation unclear", l.id)
  ELSE Result(FALSE, "failed", "http status", l.id)

\* variant: status 200 is not taken as a success status
_unsubscribe_http_Mutant(l, rsp) ==
  IF rsp.kind = "Timeout" THEN Result(FALSE, "timeout", "request timed out", l.id)
  ELSE IF rsp.kind = "RequestException" THEN Result(FALSE, "failed", "network error", l.id)
  ELSE IF RateLimited(rsp) THEN Result(FALSE, "failed", "rate limited", l.id)
  ELSE IF 200 < rsp.status /\ rsp.status < 400
    THEN IF _requires_login(rsp.page)
           THEN Result(FALSE, "login_required", "login required", l.id)
         ELSE IF rsp.page.confirm_text
           THEN Result(FALSE, "manual_action_needed", "confirmation email", l.id)
         ELSE IF rsp.page.success_kw
           THEN Result(TRUE, "header", "unsubscribed via http", l.id)
         ELSE Result(TRUE, "header", "confirmation unclear", l.id)
  ELSE Result(FALSE, "failed", "http status", l.id)

\* lines 202-318
_unsubscribe_http(l, rsp) ==
  IF rsp.kind = "Timeout" THEN Result(FALSE, "timeout", "request timed out", l.id)
  ELSE IF rsp.kind = "RequestException" THEN Result(FALSE, "failed", "network error", l.id)
  ELSE IF RateLimited(rsp) THEN Result(FALSE, "failed", "rate limited", l.id)
  ELSE IF 200 <= rsp.status /\ rsp.status < 400
    THEN IF _requires_login(rsp.page)
           THEN Result(FALSE, "login_required", "login required", l.id)
         ELSE IF rsp.page.confirm_text
           THEN Result(FALSE, "manual_action_needed", "confirmation email", l.id)
         ELSE IF rsp.page.success_kw
           THEN Result(TRUE, "header", "unsubscribed via http", l.id)
         ELSE Result(TRUE, "header", "confirmation unclear", l.id)
  ELSE Result(FALSE, "failed", "http status", l.id)

\* variant: every failure of the HTTP path is handed to the browser
Escalate_Mutant(res) == ~res.success

\* unsubscribe_from_newsletter line 105: hand the link to the browser path
Escalate(res) ==
  ~res.success /\ res.method \notin {"manual_action_needed", "login_required"}

\* ------------------------------------------------------------------------
\* batch_unsubscribe: category of a result, and the pause after item i
\* ------------------------------------------------------------------------
\* variant: a captcha result is not counted as manual
Category_Mutant(res) ==
  IF res.success THEN "auto_success"
  ELSE IF res.method \in {"manual_action_needed", "login_required"}
    THEN "manual_required"
  ELSE "failed"

\* lines 684-697
Category(res) ==
  IF res.success THEN "auto_success"
  ELSE IF res.method \in {"manual_action_needed", "login_required", "captcha"}
    THEN "manual_required"
  ELSE "failed"

\* variant: the pause before the last item is skipped as well
SleepAfter_Mutant(idx, total) == idx < total - 1

SleepAfter(idx, total) == idx < total

\* ------------------------------------------------------------------------
\* State
\* ------------------------------------------------------------------------
VARIABLES
  pc,                \* where request r is: "absent", "request", "rejected", "called",
                     \* "loop", "attempt", "record", "sleep", "returned", "raised"
  newsletter_list,   \* the candidates handed to batch_unsubscribe
  progress_callback, \* TRUE iff a callback was passed
  i,                 \* loop index of batch_unsubscribe (items started)
  counts,            \* auto_success_count, manual_required_count, failed_count
  results,           \* the list results
  notified,          \* the calls progress_callback(i, total, result) made so far
  delays,            \* number of time.sleep(RATE_LIMIT_DELAY) calls made
  att,               \* the running call of unsubscribe_from_newsletter
  driver,            \* TRUE iff a browser session of r is open
  pace,              \* time slept since the last HTTP/browser action of r
  error,             \* the exception that left batch_unsubscribe, if any
  whitelist,         \* the sender_email values stored in the table whitelist
  difficulty,        \* the tiers POST /scan gave the candidates of r, in order
  verdict,           \* what the two login detectors said of one page
  answer,            \* the last call of a function of whitelist.py and what it returned
  account,           \* one POST /accounts/add: its inputs, the exception raised, the reply
  extracted,         \* one call of a function of scanner.py on one input, and its result
  scanner            \* the locals of one call of scan_newsletters

vars ==
  <<pc, newsletter_list, progress_callback, i, counts, results, notified, delays,
    att, driver, pace, error, whitelist, difficulty, verdict, answer, account, extracted, scanner>>

\* the state outside batch_unsubscribe and the routes that lead to it
elsewhere == <<verdict, answer, account, extracted, scanner>>

NoVerdict == [page |-> PagePlain, asked |-> FALSE, http |-> FALSE, browser |-> FALSE]

NoAnswer == [op |-> "none", arg |-> 0, confirm |-> FALSE, db_ok |-> TRUE, ret |-> FALSE, before |-> {}]

\* No request for /accounts/add. email is the 'email' field of the body (0
\* when it is missing), token the state of token_{email}.pickle, login the
\* account chosen in the browser of the OAuth flow; addresses as in Lower.
NoAccount ==
  [pc |-> "idle", email |-> 0, token |-> "none", credentials_file |-> TRUE, login |-> 1,
   profile_ok |-> TRUE, flow_ran |-> FALSE, saved |-> FALSE, raised |-> "none",
   status |-> 0, message |-> "none"]

\* A URI found in a message: kind is its scheme ("other" for a scheme that
\* is neither http(s) nor mailto), id tells one URI from another. NoToken
\* is Python's None.
Tok(kind, id) == [kind |-> kind, id |-> id]
NoToken == Tok("None", 0)

\* _process_message returned None
NoCandidate ==
  [produced |-> FALSE, sender_email |-> -1, sender_name |-> -1, subject |-> -1, date |-> -1,
   unsubscribe_link |-> NoToken, unsubscribe_method |-> "none"]

\* A message as messages().get returns it. fault tells what goes wrong with
\* it: "get" when the call raises, "payload" when the reply lacks the
\* payload or its headers, "body" when the data of the body cannot be
\* read (base64 with a wrong padding, a part that is no object).
NoMessage == [fault |-> "none", headers |-> << >>, body |-> << >>]

\* no function of scanner.py has been called
NoExtract ==
  [fn |-> "none", done |-> FALSE, header_value |-> << >>, email_body |-> << >>, message |-> NoMessage,
   link |-> NoToken, candidate |-> NoCandidate, parsed |-> NoToken, body_scanned |-> FALSE,
   found |-> NoToken]

\* No scan is running. inbox is the number of messages that match the
\* query and pattern tells which messages they are; offset is the place in
\* the inbox where the page in hand begins, k the number of its messages
\* already processed, page_token the place the next page begins (-1 for no
\* token), quota what was left of max_results at the last list call.
NoScanner ==
  [pc |-> "idle", max_results |-> 0, scan_all |-> FALSE, progress_callback |-> "none",
   inbox |-> 0, pattern |-> 1,
   total_scanned |-> 0, newsletters |-> [m \in {"header", "body", "none"} |-> 0],
   batch_size |-> 0, quota |-> 0, pages |-> 0, page_len |-> 0, page_token |-> -1,
   offset |-> 0, k |-> 0, calls |-> 0, error |-> "none", total_found |-> 0]

\* the state of a part of the program that takes no step in a specification
Idle == [pc |-> "idle"]

\* nothing but batch_unsubscribe and its routes is running
Elsewhere ==
  /\ verdict = Idle
  /\ answer = Idle
  /\ account = Idle
  /\ extracted = Idle
  /\ scanner = Idle

Attempt(l, at) ==
  [apc |-> at, link |-> l, http |-> NoResponse, browser_link |-> NoLink,
   page |-> PagePlain, result |-> NoneResult, browser_result |-> NoneResult, requests |-> 0, entries |-> 0,
   loads |-> 0, clicks |-> 0, checked |-> FALSE, pidx |-> 0, element_found |-> FALSE,
   fault |-> "none"]

NoError == [at |-> 0, what |-> "none"]

NoPace == [idle |-> 0, last |-> 0, gap |-> -1]

\* an HTTP/browser action of candidate k: the pause since the last action of
\* candidate k-1 is remembered in gap
Effect(p, k) ==
  [idle |-> 0, last |-> k, gap |-> IF p.last # 0 /\ p.last = k - 1 THEN p.idle ELSE p.gap]

Total(r) == Len(newsletter_list[r])

\* the dictionary batch_unsubscribe returns
Summary(r) ==
  [total |-> Total(r),
   auto_success_count |-> counts[r].auto,
   manual_required_count |-> counts[r].manual,
   failed_count |-> counts[r].failed,
   results |-> results[r]]

InitRequest(p, nl, cb, wl) ==
  /\ pc = p
  /\ whitelist = wl
  /\ difficulty = [r \in Requests |-> << >>]
  /\ newsletter_list = nl
  /\ progress_callback = cb
  /\ i = [r \in Requests |-> 0]
  /\ counts = [r \in Requests |-> [auto |-> 0, manual |-> 0, failed |-> 0]]
  /\ results = [r \in Requests |-> << >>]
  /\ notified = [r \in Requests |-> << >>]
  /\ delays = [r \in Requests |-> 0]
  /\ att = [r \in Requests |-> Attempt(NoLink, "idle")]
  /\ driver = [r \in Requests |-> FALSE]
  /\ pace = [r \in Requests |-> NoPace]
  /\ error = [r \in Requests |-> NoError]

\* one call batch_unsubscribe(newsletter_list, progress_callback)
Init ==
  \E nl \in Batches, cb \in BOOLEAN :
    /\ InitRequest([r \in Requests |-> IF r = "r1" THEN "called" ELSE "absent"],
                   [r \in Requests |-> IF r = "r1" THEN nl ELSE << >>],
                   [r \in Requests |-> IF r = "r1" THEN cb ELSE FALSE],
                   {})
    /\ Elsewhere

\* ------------------------------------------------------------------------
\* batch_unsubscribe
\* ------------------------------------------------------------------------
\* lines 660-668: the counters and the result list are set up
BatchStart(r) ==
  /\ pc[r] = "called"
  /\ pc' = [pc EXCEPT ![r] = "loop"]
  /\ i' = [i EXCEPT ![r] = 0]
  /\ counts' = [counts EXCEPT ![r] = [auto |-> 0, manual |-> 0, failed |-> 0]]
  /\ results' = [results EXCEPT ![r] = << >>]
  /\ UNCHANGED <<elsewhere, whitelist, difficulty, newsletter_list, progress_callback, notified, delays, att, driver, pace, error>>

\* lines 670-678: the next item is taken and unsubscribe_from_newsletter called
LoopNext(r) ==
  /\ pc[r] = "loop"
  /\ i[r] < Total(r)
  /\ i' = [i EXCEPT ![r] = i[r] + 1]
  /\ att' = [att EXCEPT ![r] = Attempt(newsletter_list[r][i[r] + 1].unsubscribe_link, "start")]
  /\ pc' = [pc EXCEPT ![r] = "attempt"]
  /\ UNCHANGED <<elsewhere, whitelist, difficulty, newsletter_list, progress_callback, counts, results, notified, delays,
                 driver, pace, error>>

\* lines 710-724: the loop is over, the summary is returned
BatchReturn(r) ==
  /\ pc[r] = "loop"
  /\ i[r] >= Total(r)
  /\ pc' = [pc EXCEPT ![r] = "returned"]
  /\ UNCHANGED <<elsewhere, whitelist, difficulty, newsletter_list, progress_callback, i, counts, results, notified, delays,
                 att, driver, pace, error>>

\* variant: the failed branch forgets its counter
Count_Mutant(c, cat) ==
  [auto   |-> c.auto   + (IF cat = "auto_success" THEN 1 ELSE 0),
   manual |-> c.manual + (IF cat = "manual_required" THEN 1 ELSE 0),
   failed |-> c.failed]

Count(c, cat) ==
  [auto   |-> c.auto   + (IF cat = "auto_success" THEN 1 ELSE 0),
   manual |-> c.manual + (IF cat = "manual_required" THEN 1 ELSE 0),
   failed |-> c.failed + (IF cat = "failed" THEN 1 ELSE 0)]

\* the result as appended: sender attached (lines 681-682), category set
Entry(res, cand) ==
  [success |-> res.success, method |-> res.method, message |-> res.message,
   unsubscribe_url |-> res.unsubscribe_url, sender_email |-> cand.sender_email,
   category |-> Category(res)]

\* line 699
Append_results(rs, e) == Append(rs, e)

\* variant: the index is reported zero-based
Notification_Mutant(idx, total, e) == [index |-> idx - 1, total |-> total, result |-> e]

\* line 703: progress_callback(i, total, result)
Notification(idx, total, e) == [index |-> idx, total |-> total, result |-> e]

\* variant: an exception of the callback is swallowed and the loop goes on
AfterCallback_Mutant(raises, idx, total) ==
  IF SleepAfter(idx, total) THEN "sleep" ELSE "loop"

\* lines 703-708: where the loop body goes after the callback; an exception
\* of the callback is not caught
AfterCallback(raises, idx, total) ==
  IF raises THEN "raised"
  ELSE IF SleepAfter(idx, total) THEN "sleep"
  ELSE "loop"

\* lines 680-706: the result is tagged, counted, appended and notified.
\* result['sender_name'] = ... on None raises TypeError; an exception of the
\* callback leaves batch_unsubscribe as well.
BatchRecord(r) ==
  /\ pc[r] = "record"
  /\ LET res == att[r].result
         e   == Entry(res, newsletter_list[r][i[r]])
     IN IF res = NoneResult
          THEN /\ pc' = [pc EXCEPT ![r] = "raised"]
               /\ error' = [error EXCEPT ![r] = [at |-> i[r], what |-> "TypeError"]]
               /\ UNCHANGED <<counts, results, notified>>
          ELSE /\ counts' = [counts EXCEPT ![r] = Count(counts[r], e.category)]
               /\ results' = [results EXCEPT ![r] = Append_results(results[r], e)]
               /\ IF progress_callback[r]
                    THEN /\ notified' = [notified EXCEPT ![r] =
                                Append(notified[r], Notification(i[r], Total(r), e))]
                         /\ \E raises \in BOOLEAN :
                              /\ pc' = [pc EXCEPT ![r] = AfterCallback(raises, i[r], Total(r))]
                              /\ error' = [error EXCEPT ![r] =
                                    IF raises THEN [at |-> i[r], what |-> "callback"] ELSE @]
                    ELSE /\ pc' = [pc EXCEPT ![r] = AfterCallback(FALSE, i[r], Total(r))]
                         /\ UNCHANGED <<notified, error>>
  /\ UNCHANGED <<elsewhere, whitelist, difficulty, newsletter_list, progress_callback, i, delays, att, driver, pace>>

\* lines 706-708: time.sleep(RATE_LIMIT_DELAY)
BatchSleep(r) ==
  /\ pc[r] = "sleep"
  /\ pace' = [pace EXCEPT ![r].idle = @ + RATE_LIMIT_DELAY]
  /\ delays' = [delays EXCEPT ![r] = @ + 1]
  /\ pc' = [pc EXCEPT ![r] = "loop"]
  /\ UNCHANGED <<elsewhere, whitelist, difficulty, newsletter_list, progress_callback, i, counts, results, notified, att,
                 driver, error>>

\* ------------------------------------------------------------------------
\* unsubscribe_from_newsletter
\* ------------------------------------------------------------------------
Returns(r, a, res) ==
  /\ att' = [att EXCEPT ![r] = [a EXCEPT !.apc = "done", !.result = res]]
  /\ pc' = [pc EXCEPT ![r] = "record"]
  /\ UNCHANGED error

\* lines 71-117 up to the call of _unsubscribe_http; a ValueError of urlparse
\* in _is_link_expired is caught nowhere and leaves batch_unsubscribe
unsubscribe_from_newsletter(r) ==
  /\ pc[r] = "attempt"
  /\ att[r].apc = "start"
  /\ LET d == Dispatch(att[r].link)
     IN CASE d.to = "raise" ->
               /\ att' = [att EXCEPT ![r].apc = "raised"]
               /\ pc' = [pc EXCEPT ![r] = "raised"]
               /\ error' = [error EXCEPT ![r] = [at |-> i[r], what |-> "ValueError"]]
          [] d.to = "http" ->
               /\ att' = [att EXCEPT ![r].apc = "http"]
               /\ UNCHANGED <<pc, error>>
          [] OTHER -> Returns(r, att[r], d.result)
  /\ UNCHANGED <<elsewhere, whitelist, difficulty, newsletter_list, progress_callback, i, counts, results, notified, delays,
                 driver, pace>>

\* lines 102-109: _unsubscribe_http sends its one request; a failure other
\* than manual_action_needed / login_required hands the link to the browser
HttpRequest(r) ==
  /\ pc[r] = "attempt"
  /\ att[r].apc = "http"
  /\ \E rsp \in HttpResponses :
       LET res == _unsubscribe_http(att[r].link, rsp)
           a   == [att[r] EXCEPT !.http = rsp, !.requests = @ + 1, !.result = res]
       IN IF Escalate(res)
            THEN /\ att' = [att EXCEPT ![r] =
                       [a EXCEPT !.apc = "browser", !.entries = @ + 1, !.browser_link = a.link]]
                 /\ UNCHANGED <<pc, error>>
            ELSE Returns(r, a, res)
  /\ pace' = [pace EXCEPT ![r] = Effect(pace[r], i[r])]
  /\ UNCHANGED <<elsewhere, whitelist, difficulty, newsletter_list, progress_callback, i, counts, results, notified, delays,
                 driver>>

\* ------------------------------------------------------------------------
\* _unsubscribe_browser
\* ------------------------------------------------------------------------
\* the return statements inside try: the finally clause runs next (the loop
\* variable pattern is dead from here on)
Leaves(r, a, res) ==
  /\ att' = [att EXCEPT ![r] = [a EXCEPT !.apc = "finally", !.browser_result = res, !.pidx = 0]]
  /\ UNCHANGED <<pc, error>>

\* variant: the address the browser arrived at
Url_Mutant(a) == "https://a.com/landing"

\* lines 356, 394-536: the parameter url of _unsubscribe_browser
Url(a) == a.browser_link.id

\* variant: a page-load timeout is reported like any other failure
TimeoutResult_Mutant(url) == Result(FALSE, "failed", "page load timeout", url)

\* lines 514-520: except TimeoutException
TimeoutResult(url) == Result(FALSE, "timeout", "page load timeout", url)

\* variant: the exception is swallowed and no result is built
CrashResult_Mutant(url) == NoneResult

\* lines 522-537: except WebDriverException / except Exception
CrashResult(url) == Result(FALSE, "failed", "browser crashed", url)

\* the failure of the browser that ended the try block
Fault(a, f) == [a EXCEPT !.fault = f]

\* lines 367-383: webdriver.Chrome(...) starts the session or raises
BrowserStart(r) ==
  /\ pc[r] = "attempt"
  /\ att[r].apc = "browser"
  /\ \E started \in BOOLEAN :
       IF started
         THEN /\ driver' = [driver EXCEPT ![r] = TRUE]
              /\ att' = [att EXCEPT ![r].apc = "get"]
              /\ pace' = [pace EXCEPT ![r] = Effect(pace[r], i[r])]
              /\ UNCHANGED <<pc, error>>
         ELSE /\ Leaves(r, Fault(att[r], "start"), CrashResult(Url(att[r])))
              /\ UNCHANGED <<driver, pace>>
  /\ UNCHANGED <<elsewhere, whitelist, difficulty, newsletter_list, progress_callback, i, counts, results, notified, delays>>

\* every combination of a login wall, a challenge widget, the preference
\* phrasing and a number of checkboxes around the limit 3 of line 635
ObstaclePages ==
  { Page(FALSE, pw, FALSE, FALSE, FALSE, FALSE, FALSE, cap, pt, cb) :
      pw \in BOOLEAN, cap \in BOOLEAN, pt \in BOOLEAN, cb \in {0, 3, 4, 5} }

\* lines 385-390: driver.get(url) shows one of pages, times out or fails
Load(r, pages) ==
  /\ pc[r] = "attempt"
  /\ att[r].apc = "get"
  /\ LET a == [att[r] EXCEPT !.loads = @ + 1]
     IN \/ \E pg \in pages :
             /\ att' = [att EXCEPT ![r] = [a EXCEPT !.apc = "detect", !.page = pg]]
             /\ UNCHANGED <<pc, error>>
        \/ Leaves(r, Fault(a, "load_timeout"), TimeoutResult(Url(a)))
        \/ Leaves(r, Fault(a, "crash"), CrashResult(Url(a)))
  /\ pace' = [pace EXCEPT ![r] = Effect(pace[r], i[r])]
  /\ UNCHANGED <<elsewhere, whitelist, difficulty, newsletter_list, progress_callback, i, counts, results, notified, delays,
                 driver>>

BrowserGet(r) == Load(r, BrowserPages)

\* driver.get(url) on a page with any combination of obstacles
BrowserGetAny(r) == Load(r, ObstaclePages)

\* variant: the challenge widget is looked for before the login wall
Obstacle_Mutant(pg) ==
  IF _detect_captcha(pg) THEN "captcha"
  ELSE IF _detect_login_page(pg) THEN "login_required"
  ELSE IF _detect_complex_flow(pg) THEN "manual_action_needed"
  ELSE "none"

\* lines 392-420: the obstacle the page shows, "none" if it shows none
Obstacle(pg) ==
  IF _detect_login_page(pg) THEN "login_required"
  ELSE IF _detect_captcha(pg) THEN "captcha"
  ELSE IF _detect_complex_flow(pg) THEN "manual_action_needed"
  ELSE "none"

\* variant: an obstacle is reported with the success flag set
ObstacleResult_Mutant(ob, url) == Result(TRUE, ob, "obstacle", url)

\* lines 394-420: the result for an obstacle
ObstacleResult(ob, url) == Result(FALSE, ob, "obstacle", url)

BrowserDetect(r) ==
  /\ pc[r] = "attempt"
  /\ att[r].apc = "detect"
  /\ LET ob == Obstacle(att[r].page)
     IN IF ob # "none"
          THEN Leaves(r, att[r], ObstacleResult(ob, Url(att[r])))
          ELSE /\ att' = [att EXCEPT ![r] = [att[r] EXCEPT !.apc = "loop", !.pidx = 1]]
               /\ UNCHANGED <<pc, error>>
  /\ UNCHANGED <<elsewhere, whitelist, difficulty, newsletter_list, progress_callback, i, counts, results, notified, delays,
                 driver, pace>>

\* what one pass of the loop over unsubscribe_patterns can meet
\*   no_element      WebDriverWait(...).until raises TimeoutException
\*   wait_crash      a WebDriverException before anything was clicked
\*   email_empty     an empty email input exists
\*   click_timeout   element.click() raises TimeoutException
\*   click_crash     element.click() raises another WebDriverException
\*   source_timeout  driver.page_source raises TimeoutException after the click
\*   source_crash    driver.page_source raises another WebDriverException
\*   clicked_kw      the page after the click shows a success keyword
\*   clicked_unclear it shows none
PatternEvents ==
  {"no_element", "wait_crash", "email_empty", "click_timeout", "click_crash",
   "source_timeout", "source_crash", "clicked_kw", "clicked_unclear"}

Clicks(ev) ==
  ev \in {"click_timeout", "click_crash", "source_timeout", "source_crash",
          "clicked_kw", "clicked_unclear"}

\* lines 440-503: one pass of the loop, for pattern att.pidx
BrowserPattern(r) ==
  /\ pc[r] = "attempt"
  /\ att[r].apc = "loop"
  /\ att[r].pidx <= NumPatterns
  /\ \E ev \in PatternEvents, box \in BOOLEAN :
       /\ Clicks(ev) => att[r].clicks < MaxClicks
       /\ box => (ev # "no_element" /\ ~att[r].checked)
       /\ LET a == [att[r] EXCEPT !.checked = @ \/ box,
                                  !.clicks = IF Clicks(ev) THEN @ + 1 ELSE @]
          IN CASE ev \in {"no_element", "click_timeout"} ->
                    /\ att' = [att EXCEPT ![r] = [a EXCEPT !.pidx = @ + 1]]
                    /\ UNCHANGED <<pc, error>>
               [] ev = "source_timeout" ->
                    /\ att' = [att EXCEPT ![r] = [a EXCEPT !.pidx = @ + 1, !.element_found = TRUE]]
                    /\ UNCHANGED <<pc, error>>
               [] ev \in {"wait_crash", "click_crash", "source_crash"} ->
                    Leaves(r, [a EXCEPT !.element_found = (ev = "source_crash") \/ @,
                                        !.fault = "crash"],
                           CrashResult(Url(a)))
               [] ev = "email_empty" ->
                    Leaves(r, a, Result(FALSE, "manual_action_needed", "email required", Url(a)))
               [] ev = "clicked_kw" ->
                    Leaves(r, [a EXCEPT !.element_found = TRUE],
                           Result(TRUE, "browser", "unsubscribed via browser", Url(a)))
               [] OTHER ->
                    Leaves(r, [a EXCEPT !.element_found = TRUE],
                           Result(TRUE, "browser", "confirmation unclear", Url(a)))
       /\ pace' = [pace EXCEPT ![r] = IF Clicks(ev) \/ box THEN Effect(pace[r], i[r]) ELSE pace[r]]
  /\ UNCHANGED <<elsewhere, whitelist, difficulty, newsletter_list, progress_callback, i, counts, results, notified, delays,
                 driver>>

\* lines 505-512: after the last pattern; when element_found is set no
\* return statement is reached and the function returns None
BrowserAfterLoop(r) ==
  /\ pc[r] = "attempt"
  /\ att[r].apc = "loop"
  /\ att[r].pidx > NumPatterns
  /\ IF ~att[r].element_found
       THEN Leaves(r, att[r], Result(FALSE, "manual_action_needed", "no button", Url(att[r])))
       ELSE Leaves(r, att[r], NoneResult)
  /\ UNCHANGED <<elsewhere, whitelist, difficulty, newsletter_list, progress_callback, i, counts, results, notified, delays,
                 driver, pace>>

\* variant: the finally clause leaves the session as it is
Quit_Mutant(d) == d

\* lines 539-543: driver.quit() ends the session; an exception of quit is
\* swallowed, the driver service is stopped in either case
Quit(d) == FALSE

\* line 107: the result of the browser path is the result of the attempt,
\* the result of the HTTP path is dropped
Returned(http_result, browser_result) == browser_result

\* lines 538-543, then the return to batch_unsubscribe through line 107
BrowserFinally(r) ==
  /\ pc[r] = "attempt"
  /\ att[r].apc = "finally"
  /\ driver' = [driver EXCEPT ![r] = IF driver[r] THEN Quit(driver[r]) ELSE FALSE]
  /\ pace' = [pace EXCEPT ![r] = IF driver[r] THEN Effect(pace[r], i[r]) ELSE pace[r]]
  /\ att' = [att EXCEPT ![r] =
         [att[r] EXCEPT !.apc = "done", !.result = Returned(att[r].result, att[r].browser_result)]]
  /\ pc' = [pc EXCEPT ![r] = "record"]
  /\ UNCHANGED <<elsewhere, whitelist, difficulty, newsletter_list, progress_callback, i, counts, results, notified, delays,
                 error>>

\* ------------------------------------------------------------------------
\* Specification: one call of batch_unsubscribe
\* ------------------------------------------------------------------------
Next ==
  \E r \in Requests :
    \/ BatchStart(r)
    \/ LoopNext(r)
    \/ unsubscribe_from_newsletter(r)
    \/ HttpRequest(r)
    \/ BrowserStart(r)
    \/ BrowserGet(r)
    \/ BrowserDetect(r)
    \/ BrowserPattern(r)
    \/ BrowserAfterLoop(r)
    \/ BrowserFinally(r)
    \/ BatchRecord(r)
    \/ BatchSleep(r)
    \/ BatchReturn(r)

Spec == Init /\ [][Next]_vars

\* ------------------------------------------------------------------------
\* Specification: one call of batch_unsubscribe with one candidate, over
\* the wide set of links.  FairSpecAttempt adds that a step which can be
\* taken is taken: requests.get has timeout=REQUEST_TIMEOUT, driver.get the
\* page-load timeout, WebDriverWait ELEMENT_SEARCH_TIMEOUT, time.sleep a
\* fixed length, so every blocking call of a step returns.
\* ------------------------------------------------------------------------
AttemptCandidates ==
  { NewsletterData(l, 1, m, "other") :
      l \in WideLinks, m \in {"header", "body"} }

InitAttempt ==
  \E c \in AttemptCandidates, cb \in BOOLEAN :
    /\ InitRequest([r \in Requests |-> IF r = "r1" THEN "called" ELSE "absent"],
                   [r \in Requests |-> IF r = "r1" THEN <<c>> ELSE << >>],
                   [r \in Requests |-> IF r = "r1" THEN cb ELSE FALSE],
                   {})
    /\ Elsewhere

NextAttempt ==
  \E r \in Requests :
    \/ BatchStart(r)
    \/ LoopNext(r)
    \/ unsubscribe_from_newsletter(r)
    \/ HttpRequest(r)
    \/ BrowserStart(r)
    \/ BrowserGet(r)
    \/ BrowserDetect(r)
    \/ BrowserPattern(r)
    \/ BrowserAfterLoop(r)
    \/ BrowserFinally(r)
    \/ BatchRecord(r)
    \/ BatchReturn(r)

SpecAttempt == InitAttempt /\ [][NextAttempt]_vars

FairSpecAttempt == SpecAttempt /\ WF_vars(NextAttempt)

\* ------------------------------------------------------------------------
\* Specification: one attempt on an https link that reaches the browser,
\* whose page shows any combination of obstacles
\* ------------------------------------------------------------------------
InitObstacle ==
  \E cb \in BOOLEAN :
    /\ InitRequest([r \in Requests |-> IF r = "r1" THEN "called" ELSE "absent"],
                   [r \in Requests |->
                      IF r = "r1" THEN <<NewsletterData(LinkHttps, 1, "header", "other")>> ELSE << >>],
                   [r \in Requests |-> IF r = "r1" THEN cb ELSE FALSE],
                   {})
    /\ Elsewhere

NextObstacle ==
  \E r \in Requests :
    \/ BatchStart(r)
    \/ LoopNext(r)
    \/ unsubscribe_from_newsletter(r)
    \/ HttpRequest(r)
    \/ BrowserStart(r)
    \/ BrowserGetAny(r)
    \/ BrowserDetect(r)
    \/ BrowserPattern(r)
    \/ BrowserAfterLoop(r)
    \/ BrowserFinally(r)
    \/ BatchRecord(r)
    \/ BatchReturn(r)

SpecObstacle == InitObstacle /\ [][NextObstacle]_vars

\* ------------------------------------------------------------------------
\* Specification: the web application with two POST /unsubscribe requests in
\* flight.  app.run(...) starts the development server, which handles every
\* request in a thread of its own; the route takes no lock.
\* ------------------------------------------------------------------------
\* app.py lines 426-470: the route checks the body and the account and calls
\* batch_unsubscribe(newsletters, progress_callback=progress_callback)
unsubscribe(r) ==
  /\ pc[r] = "request"
  /\ \E authenticated \in BOOLEAN :
       pc' = [pc EXCEPT ![r] =
                IF Len(newsletter_list[r]) = 0 \/ ~authenticated THEN "rejected" ELSE "called"]
  /\ UNCHANGED <<elsewhere, whitelist, difficulty, newsletter_list, progress_callback, i, counts, results, notified, delays,
                 att, driver, pace, error>>

ServerLists ==
  [r1 : {<< >>, <<Candidate(LinkMailto, 1), Candidate(LinkFtp, 2)>>},
   r2 : {<<Candidate(LinkHttps, 1)>>}]

\* the table whitelist when the requests arrive: empty, or holding sender 1
ServerWhitelists == {{}, {1}}

InitServer ==
  \E nl \in ServerLists, wl \in ServerWhitelists :
    /\ InitRequest([r \in Requests |-> "request"],
                   [r \in Requests |-> IF r = "r1" THEN nl.r1 ELSE nl.r2],
                   [r \in Requests |-> TRUE],
                   wl)
    /\ Elsewhere

NextServer ==
  \/ \E r \in Requests : unsubscribe(r)
  \/ Next

SpecServer == InitServer /\ [][NextServer]_vars

\* ------------------------------------------------------------------------
\* Difficulty tiers: categorize_unsubscribe_difficulty, and the loop of
\* POST /scan that applies it
\* ------------------------------------------------------------------------
\* variant: the missing link is looked at before the method
categorize_unsubscribe_difficulty_Mutant(c) ==
  LET l == c.unsubscribe_link
  IN IF l.id = "None" THEN "medium"
     ELSE IF c.unsubscribe_method = "header" THEN "easy"
     ELSE IF ~l.parseable THEN "medium"
     ELSE IF l.domain = "login" THEN "hard"
     ELSE IF l.scheme = "mailto" THEN "hard"
     ELSE "medium"

\* unsubscriber.py lines 727-801; sender_email is read (line 739) and used
\* nowhere; an exception of urlparse ends in the except clause of line 795
categorize_unsubscribe_difficulty(c) ==
  LET l == c.unsubscribe_link
  IN IF c.unsubscribe_method = "header" THEN "easy"
     ELSE IF l.id = "None" THEN "medium"
     ELSE IF ~l.parseable THEN "medium"
     ELSE IF l.domain = "login" THEN "hard"
     ELSE IF l.scheme = "mailto" THEN "hard"
     ELSE IF l.domain = "common" THEN "medium"
     ELSE IF c.unsubscribe_method = "body" THEN "medium"
     ELSE "medium"

\* Addresses are numbers: 0 is the empty string, 1 and 2 are addresses in
\* lower case, 11 and 12 the same addresses written with capital letters.
\* sender_email.lower():
Lower(e) == IF e > 10 THEN e - 10 ELSE e

\* whitelist.py lines 142-166: the lookup; an error of the database is
\* swallowed and answered with False
is_whitelisted(sender_email, db_ok) ==
  sender_email # 0 /\ db_ok /\ Lower(sender_email) \in whitelist

\* app.py lines 351-369: the tier one newsletter of the scan gets
Tier(c, db_ok) ==
  IF is_whitelisted(c.sender_email, db_ok) THEN "whitelisted"
  ELSE categorize_unsubscribe_difficulty(c)

\* app.py lines 351-369: the loop over the newsletters found by the scan
scan(r) ==
  /\ pc[r] = "scan"
  /\ \E db_ok \in BOOLEAN :
       difficulty' = [difficulty EXCEPT ![r] =
                        [k \in 1..Len(newsletter_list[r]) |-> Tier(newsletter_list[r][k], db_ok)]]
  /\ pc' = [pc EXCEPT ![r] = "scanned"]
  /\ UNCHANGED <<elsewhere, whitelist, newsletter_list, progress_callback, i, counts, results, notified,
                 delays, att, driver, pace, error>>

ScanSenders == {1, 2}

\* what the scanner hands over: unsubscribe_method is 'header', 'body' or 'none'
ScanCandidates ==
  { NewsletterData(l, k, m, d) :
      l \in ClassLinks, k \in ScanSenders, m \in {"header", "body", "none"},
      d \in {"login", "other"} }

InitScan ==
  \E c \in ScanCandidates, wl \in {{}, {1}} :
    /\ InitRequest([r \in Requests |-> IF r = "r1" THEN "scan" ELSE "absent"],
                   [r \in Requests |-> IF r = "r1" THEN <<c>> ELSE << >>],
                   [r \in Requests |-> FALSE],
                   wl)
    /\ Elsewhere

NextScan == \E r \in Requests : scan(r)

SpecScan == InitScan /\ [][NextScan]_vars

\* nothing of batch_unsubscribe or of a route leading to it is running
NoRequests(wl) ==
  InitRequest([r \in Requests |-> "absent"], [r \in Requests |-> << >>],
              [r \in Requests |-> FALSE], wl)

batchvars == <<pc, newsletter_list, progress_callback, i, counts, results, notified, delays,
               att, driver, pace, error, difficulty>>

\* ------------------------------------------------------------------------
\* Specification: the two login detectors on one final URL and page content
\* ------------------------------------------------------------------------
\* a response of the HTTP path and the page the browser shows for it
LoginPages ==
  { Page(lu, pw, lt, at, kd, FALSE, sk, FALSE, FALSE, 0) :
      lu \in BOOLEAN, pw \in BOOLEAN, lt \in BOOLEAN, at \in BOOLEAN, kd \in BOOLEAN,
      sk \in BOOLEAN }

\* unsubscriber.py line 249 (_requires_login(response.text, response.url))
\* and line 393 (_detect_login_page(driver)), on the same URL and content
DetectLogin ==
  /\ ~verdict.asked
  /\ verdict' = [verdict EXCEPT !.asked = TRUE,
                                !.http = _requires_login(verdict.page),
                                !.browser = _detect_login_page(verdict.page)]
  /\ UNCHANGED <<batchvars, whitelist, answer, account, extracted, scanner>>

InitDetect ==
  \E pg \in LoginPages :
    /\ NoRequests({})
    /\ verdict = [NoVerdict EXCEPT !.page = pg]
    /\ answer = NoAnswer
    /\ account = NoAccount
    /\ extracted = NoExtract
    /\ scanner = NoScanner

NextDetect == DetectLogin

SpecDetect == InitDetect /\ [][NextDetect]_vars

\* ------------------------------------------------------------------------
\* Specification: _unsubscribe_http on one answer of the server. The status
\* codes lie on both sides of the limits 200 and 400 of line 245; the page
\* carries every combination of a login indicator, the confirmation
\* phrasing and a success keyword.
\* ------------------------------------------------------------------------
HttpStatuses == {199, 200, 204, 302, 399, 400, 404, 429, 500, 503}

HttpPages ==
  { Page(FALSE, pw, lt, FALSE, kd, ce, sk, FALSE, FALSE, 0) :
      pw \in BOOLEAN, lt \in BOOLEAN, kd \in BOOLEAN, ce \in BOOLEAN, sk \in BOOLEAN }

HttpAnswers ==
  { Response("response", st, pg) : st \in HttpStatuses, pg \in HttpPages }
    \cup { Response("Timeout", 0, PagePlain), Response("RequestException", 0, PagePlain) }

\* lines 231-318: the request has been answered by verdict.response
HttpDecide ==
  /\ ~verdict.asked
  /\ verdict' = [verdict EXCEPT !.asked = TRUE,
                                !.result = _unsubscribe_http(LinkHttps, verdict.response)]
  /\ UNCHANGED <<batchvars, whitelist, answer, account, extracted, scanner>>

InitHttp ==
  \E rsp \in HttpAnswers :
    /\ NoRequests({})
    /\ verdict = [asked |-> FALSE, response |-> rsp, result |-> NoneResult]
    /\ answer = NoAnswer
    /\ account = NoAccount
    /\ extracted = NoExtract
    /\ scanner = NoScanner

NextHttp == HttpDecide

SpecHttp == InitHttp /\ [][NextHttp]_vars

\* ------------------------------------------------------------------------
\* Specification: the functions of whitelist.py called one after another.
\* db_ok is FALSE when sqlite raises for another reason than the UNIQUE
\* constraint (file not writable, database locked); the functions catch it.
\* ------------------------------------------------------------------------
Addresses == {0, 1, 2, 11, 12}

Answer(op, e, confirm, db_ok, ret) ==
  [op |-> op, arg |-> e, confirm |-> confirm, db_ok |-> db_ok, ret |-> ret, before |-> whitelist]

\* variant: the address is stored as it was written
Stored_Mutant(e) == e

\* whitelist.py line 97: the value of the column sender_email
Stored(e) == Lower(e)

\* whitelist.py lines 77-106: INSERT; the UNIQUE constraint rejects an
\* address that is stored already
add_to_whitelist(e, db_ok) ==
  LET added == e # 0 /\ db_ok /\ Stored(e) \notin whitelist
  IN /\ whitelist' = IF added THEN whitelist \cup {Stored(e)} ELSE whitelist
     /\ answer' = Answer("add", e, FALSE, db_ok, added)
     /\ UNCHANGED <<batchvars, verdict, account, extracted, scanner>>

\* whitelist.py lines 109-139: DELETE ... WHERE sender_email = lower(e)
remove_from_whitelist(e, db_ok) ==
  LET removed == e # 0 /\ db_ok /\ Lower(e) \in whitelist
  IN /\ whitelist' = IF removed THEN whitelist \ {Lower(e)} ELSE whitelist
     /\ answer' = Answer("remove", e, FALSE, db_ok, removed)
     /\ UNCHANGED <<batchvars, verdict, account, extracted, scanner>>

\* whitelist.py lines 209-233
clear_whitelist(confirm, db_ok) ==
  /\ whitelist' = IF confirm /\ db_ok THEN {} ELSE whitelist
  /\ answer' = Answer("clear", 0, confirm, db_ok, confirm /\ db_ok)
  /\ UNCHANGED <<batchvars, verdict, account, extracted, scanner>>

\* whitelist.py lines 142-166, called on its own
AskWhitelisted(e, db_ok) ==
  /\ answer' = Answer("is_whitelisted", e, FALSE, db_ok, is_whitelisted(e, db_ok))
  /\ UNCHANGED <<batchvars, verdict, account, extracted, scanner, whitelist>>

InitWhitelist ==
  /\ NoRequests({})
  /\ verdict = NoVerdict
  /\ answer = NoAnswer
  /\ account = NoAccount
  /\ extracted = NoExtract
  /\ scanner = NoScanner

NextWhitelist ==
  \E e \in Addresses, db_ok \in BOOLEAN, confirm \in BOOLEAN :
    \/ add_to_whitelist(e, db_ok)
    \/ remove_from_whitelist(e, db_ok)
    \/ clear_whitelist(confirm, db_ok)
    \/ AskWhitelisted(e, db_ok)

SpecWhitelist == InitWhitelist /\ [][NextWhitelist]_vars

\* ------------------------------------------------------------------------
\* Specification: one POST /accounts/add.
\* ------------------------------------------------------------------------
TokenStates == {"none", "valid", "unusable"}

\* gmail_auth.py lines 34-176: the exception get_gmail_service(account_email)
\* leaves with ("none" when it returns a service). The flow runs when no
\* valid stored credentials exist; what is raised inside its try block,
\* the ValueError of line 146 included, is caught by 'except Exception' of
\* line 165 and raised again as a plain Exception.
get_gmail_service(a) ==
  IF a.token = "valid" THEN "none"
  ELSE IF ~a.credentials_file THEN "FileNotFoundError"
  ELSE IF a.profile_ok /\ Lower(a.login) # Lower(a.email) THEN "Exception"
  ELSE "none"

\* gmail_auth.py lines 106-161: the flow ran, and the credentials were
\* written to the token file
FlowRan(a) == a.token # "valid" /\ a.credentials_file
Saved(a) == FlowRan(a) /\ get_gmail_service(a) = "none"

\* app.py lines 200-215: the body is read and get_gmail_service is called
add_account_call ==
  /\ account.pc = "start"
  /\ account' = IF account.email = 0
                  THEN [account EXCEPT !.pc = "done", !.status = 400, !.message = "Missing email parameter"]
                  ELSE [account EXCEPT !.pc = "called",
                                       !.flow_ran = FlowRan(account),
                                       !.saved = Saved(account),
                                       !.raised = get_gmail_service(account)]
  /\ UNCHANGED <<batchvars, whitelist, verdict, answer, extracted, scanner>>

\* app.py lines 216-248: get_authenticated_email and the reply; the second
\* getProfile call may fail with HttpError
add_account_reply(profile2_ok) ==
  /\ account.pc = "called"
  /\ account' =
       IF account.raised = "ValueError"
       THEN [account EXCEPT !.pc = "done", !.status = 400,
                            !.message = "Account mismatch. Please log in with the correct account."]
       ELSE IF account.raised # "none"
       THEN [account EXCEPT !.pc = "done", !.status = 500, !.message = "Failed to add account"]
       ELSE IF ~profile2_ok
       THEN [account EXCEPT !.pc = "done", !.raised = "HttpError", !.status = 500,
                            !.message = "Failed to add account"]
       ELSE [account EXCEPT !.pc = "done", !.status = 200, !.message = "Successfully authenticated"]
  /\ UNCHANGED <<batchvars, whitelist, verdict, answer, extracted, scanner>>

InitAccount ==
  \E e \in {0, 1, 2, 11}, t \in TokenStates, cf \in BOOLEAN, l \in {1, 2, 11}, ok \in BOOLEAN :
    /\ NoRequests({})
    /\ verdict = NoVerdict
    /\ answer = NoAnswer
    /\ extracted = NoExtract
    /\ scanner = NoScanner
    /\ account = [NoAccount EXCEPT !.pc = "start", !.email = e, !.token = t,
                                   !.credentials_file = cf, !.login = l, !.profile_ok = ok]

NextAccount ==
  \/ add_account_call
  \/ \E profile2_ok \in BOOLEAN : add_account_reply(profile2_ok)

SpecAccount == InitAccount /\ [][NextAccount]_vars

\* ------------------------------------------------------------------------
\* Specification: the extraction functions of scanner.py, each called once
\* on one input.
\* ------------------------------------------------------------------------
MaxTokens == 3
MaxItems == 2
MaxHeaders == 2

\* A List-Unsubscribe value is a sequence of URIs; kind "bare" is a URI
\* written without angle brackets.
TokenKinds == {"https", "http", "mailto", "other", "bare"}

HeaderValues ==
  UNION { { [k \in 1..n |-> Tok(f[k], k)] : f \in [1..n -> TokenKinds] } : n \in 0..MaxTokens }

\* scanner.py line 324: re.findall(r'<([^>]+)>', header_value)
Bracketed(url) == url.kind # "bare"
\* scanner.py line 327: url.startswith(('http://', 'https://'))
IsHttp(url) == url.kind \in {"http", "https"}
\* scanner.py line 332: url.startswith('mailto:')
IsMailto(url) == url.kind = "mailto"

\* variant: the first bracketed URI of either scheme
parse_unsubscribe_header_Mutant(header_value) ==
  LET urls == SelectSeq(SelectSeq(header_value, Bracketed), LAMBDA url : IsHttp(url) \/ IsMailto(url))
  IN IF urls # << >> THEN urls[1] ELSE NoToken

\* scanner.py lines 304-340
parse_unsubscribe_header(header_value) ==
  LET urls == SelectSeq(header_value, Bracketed)
      http_urls == SelectSeq(urls, IsHttp)
      mailto_urls == SelectSeq(urls, IsMailto)
  IN IF header_value = << >> THEN NoToken
     ELSE IF http_urls # << >> THEN http_urls[1]
     ELSE IF mailto_urls # << >> THEN mailto_urls[1]
     ELSE NoToken

\* A body is a sequence of items: a hyperlink (kind "a") with the scheme of
\* its href, whether the href and the visible text hold 'unsubscribe' in any
\* case, or a URL written in the text (kind "text").
Item(kind, scheme, href_token, text_token, id) ==
  [kind |-> kind, scheme |-> scheme, href_token |-> href_token, text_token |-> text_token, id |-> id]

ItemKinds ==
  { Item("a", sc, ht, tt, 0) : sc \in {"https", "mailto"}, ht \in BOOLEAN, tt \in BOOLEAN }
    \cup { Item("text", "https", ht, FALSE, 0) : ht \in BOOLEAN }

Bodies ==
  UNION { { [k \in 1..n |-> [f[k] EXCEPT !.id = k]] : f \in [1..n -> ItemKinds] } : n \in 0..MaxItems }

\* scanner.py line 362: soup.find_all('a', href=True)
IsAnchor(item) == item.kind = "a"
\* scanner.py line 369, without the test of the scheme
Mentions(item) == item.href_token \/ item.text_token
\* scanner.py lines 369-371
Qualifies(item) == Mentions(item) /\ item.scheme = "https"
\* scanner.py line 375: https?://[^\s<>"]+unsubscribe[^\s<>"]* anywhere in the body
MatchesPattern(item) == item.scheme = "https" /\ item.href_token

\* variant: the scheme of the href is not tested
find_unsubscribe_link_in_body_Mutant(email_body) ==
  LET links == SelectSeq(SelectSeq(email_body, IsAnchor), Mentions)
      matches == SelectSeq(email_body, MatchesPattern)
  IN IF links # << >> THEN Tok(links[1].scheme, links[1].id)
     ELSE IF matches # << >> THEN Tok(matches[1].scheme, matches[1].id)
     ELSE NoToken

\* scanner.py lines 343-384
find_unsubscribe_link_in_body(email_body) ==
  LET links == SelectSeq(SelectSeq(email_body, IsAnchor), Qualifies)
      matches == SelectSeq(email_body, MatchesPattern)
  IN IF links # << >> THEN Tok(links[1].scheme, links[1].id)
     ELSE IF matches # << >> THEN Tok(matches[1].scheme, matches[1].id)
     ELSE NoToken

\* scanner.py line 185: header['name'].lower()
LowerName(name) ==
  CASE name = "From" -> "from"
    [] name = "List-Unsubscribe" -> "list-unsubscribe"
    [] name = "Subject" -> "subject"
    [] name = "Date" -> "date"
    [] OTHER -> name

\* Header values are numbers. For From, 0 is the empty string, which the
\* pattern of line 190 does not match. For Date, 1 is a date that
\* parsedate_to_datetime reads, 2 is one that it rejects.
Headers ==
  { [name |-> n, value |-> v] : n \in {"From", "from"}, v \in {0, 1, 2} }
    \cup { [name |-> n, value |-> v] : n \in {"Subject", "Date"}, v \in {1, 2} }
    \cup { [name |-> n, value |-> v] : n \in {"List-Unsubscribe", "list-unsubscribe"}, v \in {0, 1, 2, 3} }

HeaderLists == UNION { [1..n -> Headers] : n \in 0..MaxHeaders }

\* the List-Unsubscribe values of the messages: the empty string, a mailto
\* and an https URI, a mailto URI alone, a URI without angle brackets
ListValue(v) ==
  CASE v = 1 -> <<Tok("mailto", 1), Tok("https", 2)>>
    [] v = 2 -> <<Tok("mailto", 3)>>
    [] v = 3 -> <<Tok("bare", 4)>>
    [] OTHER -> << >>

\* scanner.py lines 197-200: the ISO form of a date that can be read, the
\* value itself otherwise
IsoDate(v) == IF v = 1 THEN 101 ELSE v

\* the bodies of the messages: none, a hyperlink to unsubscribe, a
\* hyperlink to something else
MessageBodies ==
  { << >>, <<Item("a", "https", TRUE, FALSE, 7)>>, <<Item("a", "https", FALSE, FALSE, 8)>> }

Messages ==
  { [fault |-> ft, headers |-> hs, body |-> b] :
      ft \in {"none", "get", "payload", "body"}, hs \in HeaderLists, b \in MessageBodies }

\* scanner.py lines 178-182: the locals before the loop over the headers
NoHeaders ==
  [sender_email |-> -1, sender_name |-> -1, subject |-> -1, date |-> -1, list_unsubscribe |-> -1]

\* scanner.py lines 185-202: one pass of the loop
ReadHeader(h, header) ==
  LET name == LowerName(header.name)
      value == header.value
  IN IF name = "from"
     THEN IF value # 0 THEN [h EXCEPT !.sender_email = value, !.sender_name = value] ELSE h
     ELSE IF name = "subject" THEN [h EXCEPT !.subject = value]
     ELSE IF name = "date" THEN [h EXCEPT !.date = IsoDate(value)]
     ELSE IF name = "list-unsubscribe" THEN [h EXCEPT !.list_unsubscribe = value]
     ELSE h

RECURSIVE ReadHeaders(_, _)
\* scanner.py lines 184-202: the loop over the headers
ReadHeaders(headers, h) ==
  IF headers = << >> THEN h ELSE ReadHeaders(Tail(headers), ReadHeader(h, Head(headers)))

\* scanner.py lines 237-301: the body, or nothing when reading it fails
_extract_email_body(message) == IF message.fault = "body" THEN << >> ELSE message.body

\* variant: a failure of the body aborts the message as the others do
Aborts_Mutant(message) == message.fault # "none"

\* scanner.py lines 167-175, 232-234: what raises inside the try block
Aborts(message) == message.fault \in {"get", "payload"}

\* variant: a mailto URI of the header is not taken
Preferred_Mutant(parsed, found) ==
  IF parsed # NoToken /\ parsed.kind # "mailto" THEN "header" ELSE IF found # NoToken THEN "body" ELSE "none"

\* scanner.py lines 205-220: the method of the candidate
Preferred(parsed, found) == IF parsed # NoToken THEN "header" ELSE IF found # NoToken THEN "body" ELSE "none"

\* scanner.py lines 156-234: the candidate, what the parser of the header
\* returned, whether the body was looked at and what was found in it
_process_message(message) ==
  LET h == ReadHeaders(message.headers, NoHeaders)
      list_unsubscribe == IF h.list_unsubscribe = -1 THEN << >> ELSE ListValue(h.list_unsubscribe)
      parsed == parse_unsubscribe_header(list_unsubscribe)
      email_body == _extract_email_body(message)
      found == IF parsed = NoToken THEN find_unsubscribe_link_in_body(email_body) ELSE NoToken
      method == Preferred(parsed, found)
  IN IF Aborts(message)
     THEN [candidate |-> NoCandidate, parsed |-> NoToken, body_scanned |-> FALSE, found |-> NoToken]
     ELSE [candidate |-> [produced |-> TRUE, sender_email |-> h.sender_email,
                          sender_name |-> h.sender_name, subject |-> h.subject, date |-> h.date,
                          unsubscribe_link |-> IF method = "header" THEN parsed
                                               ELSE IF method = "body" THEN found ELSE NoToken,
                          unsubscribe_method |-> method],
           parsed |-> parsed,
           body_scanned |-> parsed = NoToken,
           found |-> found]

ParseHeader ==
  /\ extracted.fn = "parse_unsubscribe_header"
  /\ ~extracted.done
  /\ extracted' = [extracted EXCEPT !.done = TRUE, !.link = parse_unsubscribe_header(extracted.header_value)]
  /\ UNCHANGED <<batchvars, whitelist, verdict, answer, account, scanner>>

FindInBody ==
  /\ extracted.fn = "find_unsubscribe_link_in_body"
  /\ ~extracted.done
  /\ extracted' = [extracted EXCEPT !.done = TRUE, !.link = find_unsubscribe_link_in_body(extracted.email_body)]
  /\ UNCHANGED <<batchvars, whitelist, verdict, answer, account, scanner>>

ProcessMessage ==
  /\ extracted.fn = "_process_message"
  /\ ~extracted.done
  /\ LET out == _process_message(extracted.message)
     IN extracted' = [extracted EXCEPT !.done = TRUE, !.candidate = out.candidate, !.parsed = out.parsed,
                                       !.body_scanned = out.body_scanned, !.found = out.found]
  /\ UNCHANGED <<batchvars, whitelist, verdict, answer, account, scanner>>

InitExtract ==
  /\ NoRequests({})
  /\ verdict = NoVerdict
  /\ answer = NoAnswer
  /\ account = NoAccount
  /\ scanner = NoScanner
  /\ \/ \E hv \in HeaderValues :
          extracted = [NoExtract EXCEPT !.fn = "parse_unsubscribe_header", !.header_value = hv]
     \/ \E b \in Bodies :
          extracted = [NoExtract EXCEPT !.fn = "find_unsubscribe_link_in_body", !.email_body = b]
     \/ \E m \in Messages :
          extracted = [NoExtract EXCEPT !.fn = "_process_message", !.message = m]

NextExtract ==
  \/ ParseHeader
  \/ FindInBody
  \/ ProcessMessage

SpecExtract == InitExtract /\ [][NextExtract]_vars

\* ------------------------------------------------------------------------
\* Specification: _extract_email_body on the part tree of one multipart
\* message. A part is a leaf (text/html, text/plain or another type, with
\* body data that is absent, empty or the base64 form of a content) or a
\* nested multipart of leaves. The content of a leaf is numbered by its
\* place: 10 * k for the k-th part of the payload, 10 * k + j for the j-th
\* part of a multipart that is the k-th part.
\* ------------------------------------------------------------------------
MaxParts == 2

\* Python's None and the empty string, both false in a condition
None == 0
\* 'data' is not a key of the part's body
Absent == -1
\* the base64 form of the content c
Encode(c) == c + 1000

\* lines 249-256
decode_data(data) == IF data = 0 THEN None ELSE data - 1000

Leaf(mimeType, data) ==
  [mimeType |-> mimeType, data |-> data, has_parts |-> FALSE, parts |-> << >>]

Multipart(parts) ==
  [mimeType |-> "multipart/alternative", data |-> Absent, has_parts |-> TRUE, parts |-> parts]

LeafShapes ==
  { [mimeType |-> "text/html", fill |-> "content"], [mimeType |-> "text/html", fill |-> "empty"],
    [mimeType |-> "text/plain", fill |-> "content"], [mimeType |-> "text/plain", fill |-> "empty"],
    [mimeType |-> "application/pdf", fill |-> "absent"] }

HtmlShape == [mimeType |-> "text/html", fill |-> "content"]
HtmlEmptyShape == [mimeType |-> "text/html", fill |-> "empty"]
PlainShape == [mimeType |-> "text/plain", fill |-> "content"]

\* the lists of leaves of a nested multipart
NestedShapes ==
  { << >>, <<PlainShape>>, <<HtmlShape>>, <<PlainShape, HtmlShape>>, <<HtmlShape, PlainShape>>,
    <<PlainShape, PlainShape>>, <<HtmlEmptyShape, PlainShape>> }

PartShapes ==
  { [leaf |-> TRUE, shape |-> sh, nested |-> << >>] : sh \in LeafShapes }
    \cup { [leaf |-> FALSE, shape |-> PlainShape, nested |-> n] : n \in NestedShapes }

MakeLeaf(sh, c) ==
  Leaf(sh.mimeType,
       IF sh.fill = "content" THEN Encode(c) ELSE IF sh.fill = "empty" THEN 0 ELSE Absent)

MakePart(t, k) ==
  IF t.leaf THEN MakeLeaf(t.shape, 10 * k)
  ELSE Multipart([j \in 1..Len(t.nested) |-> MakeLeaf(t.nested[j], 10 * k + j)])

PartLists ==
  UNION { { [k \in 1..n |-> MakePart(f[k], k)] : f \in [1..n -> PartShapes] } : n \in 0..MaxParts }

RECURSIVE extract_from_parts(_)
RECURSIVE ForParts(_, _, _)

\* lines 263-280: the loop of extract_from_parts from the k-th part on, with
\* the text_body of the parts before it (html_body is false whenever the
\* loop goes on)
ForParts(parts, k, text_body) ==
  IF k > Len(parts) THEN text_body
  ELSE LET part == parts[k]
           result == IF part.has_parts THEN extract_from_parts(part.parts) ELSE None
       IN IF result # None THEN result
          ELSE IF part.mimeType = "text/html" /\ part.data # Absent
            THEN IF decode_data(part.data) # None
                   THEN decode_data(part.data)
                   ELSE ForParts(parts, k + 1, text_body)
          ELSE IF part.mimeType = "text/plain" /\ part.data # Absent
            THEN ForParts(parts, k + 1, decode_data(part.data))
          ELSE ForParts(parts, k + 1, text_body)

\* lines 258-282
extract_from_parts(parts) == ForParts(parts, 1, None)

\* lines 284-289, for a payload with the key 'parts'
ExtractBody ==
  /\ ~extracted.done
  /\ extracted' = [extracted EXCEPT !.done = TRUE,
                                   !.body = extract_from_parts(extracted.parts)]
  /\ UNCHANGED <<batchvars, whitelist, verdict, answer, account, scanner>>

InitBody ==
  \E parts \in PartLists :
    /\ NoRequests({})
    /\ verdict = NoVerdict
    /\ answer = NoAnswer
    /\ account = NoAccount
    /\ extracted = [fn |-> "_extract_email_body", done |-> FALSE, parts |-> parts, body |-> None]
    /\ scanner = NoScanner

NextBody == ExtractBody

SpecBody == InitBody /\ [][NextBody]_vars

\* ------------------------------------------------------------------------
\* Specification: one call of scan_newsletters, one step for each call of
\* messages().list and for each message of a page.
\* ------------------------------------------------------------------------
MaxInbox == 260
\* scanner.py line 73: the most ids asked for in one list call
PageCap == 100
\* scanner.py line 101: progress is reported every 50 messages
ProgressEvery == 50

\* app.py line 309: limits the page offers
ScanLimits == {50, 100, 250}
\* stands for max_results = "all"
All == 0
InboxSizes == {0, 60, 100, 230, MaxInbox}

\* the messages of the inboxes: one with a List-Unsubscribe header, one with
\* a link in its body, one with neither, one that cannot be fetched, one
\* without payload, one whose body cannot be read
ScanMessages ==
  [header |-> [fault |-> "none",
               headers |-> <<[name |-> "From", value |-> 1], [name |-> "List-Unsubscribe", value |-> 1]>>,
               body |-> << >>],
   body |-> [fault |-> "none", headers |-> <<[name |-> "From", value |-> 2]>>,
             body |-> <<Item("a", "https", TRUE, FALSE, 7)>>],
   none |-> [fault |-> "none", headers |-> <<[name |-> "From", value |-> 1]>>,
             body |-> <<Item("a", "https", FALSE, FALSE, 8)>>],
   get_fails |-> [fault |-> "get", headers |-> << >>, body |-> << >>],
   no_payload |-> [fault |-> "payload", headers |-> << >>, body |-> << >>],
   body_unreadable |-> [fault |-> "body", headers |-> <<[name |-> "From", value |-> 2]>>,
                        body |-> <<Item("a", "https", TRUE, FALSE, 7)>>]]

\* the inboxes: the messages repeat in this order
ScanPatterns ==
  LET m == ScanMessages
  IN << <<m.header, m.body>>,
        <<m.header, m.get_fails, m.body, m.body_unreadable, m.none, m.no_payload, m.body>> >>

\* the n-th message that matches the query
MessageAt(pattern, n) == ScanPatterns[pattern][((n - 1) % Len(ScanPatterns[pattern])) + 1]

Smaller(a, b) == IF a <= b THEN a ELSE b

\* scanner.py line 132: len(newsletters)
Found(newsletters) == newsletters["header"] + newsletters["body"] + newsletters["none"]

\* variant: every call asks for a full page
BatchSize_Mutant(scan_all, max_results, total_scanned) == PageCap

\* scanner.py line 73: maxResults of the list call
BatchSize(scan_all, max_results, total_scanned) ==
  IF scan_all THEN PageCap ELSE Smaller(PageCap, max_results - total_scanned)

\* scanner.py lines 71-87 and 136-153: one list call; it raises HttpError
\* when fails
ListPage(fails) ==
  /\ scanner.pc = "list"
  /\ LET batch_size == BatchSize(scanner.scan_all, scanner.max_results, scanner.total_scanned)
         n == Smaller(batch_size, scanner.inbox - scanner.offset)
         asked == [scanner EXCEPT !.batch_size = batch_size,
                                  !.quota = scanner.max_results - scanner.total_scanned]
     IN scanner' =
          IF fails
          THEN [asked EXCEPT !.pc = "done", !.error = "HttpError", !.total_found = Found(scanner.newsletters)]
          ELSE [asked EXCEPT !.pages = @ + 1, !.page_len = n, !.k = 0,
                             !.page_token = IF scanner.offset + n < scanner.inbox THEN scanner.offset + n ELSE -1,
                             !.pc = IF n = 0 THEN "done" ELSE "process",
                             !.total_found = IF n = 0 THEN Found(scanner.newsletters) ELSE @]
  /\ UNCHANGED <<batchvars, whitelist, verdict, answer, account, extracted>>

\* scanner.py lines 92-134: one message of the page; after the last one, or
\* at the limit, the checks of lines 117-124 and the return
ProcessOne ==
  /\ scanner.pc = "process"
  /\ LET out == _process_message(MessageAt(scanner.pattern, scanner.offset + scanner.k + 1))
         newsletters == IF out.candidate.produced
                        THEN [scanner.newsletters EXCEPT ![out.candidate.unsubscribe_method] = @ + 1]
                        ELSE scanner.newsletters
         counted == scanner.total_scanned + 1
         due == counted % ProgressEvery = 0 /\ scanner.progress_callback # "none"
         raised == due /\ scanner.progress_callback = "raises"
         total_scanned == IF raised THEN counted + 1 ELSE counted
         reached == ~scanner.scan_all /\ total_scanned >= scanner.max_results
         leaves == (~raised /\ reached) \/ scanner.k + 1 = scanner.page_len
         returns == leaves /\ (reached \/ scanner.page_token = -1)
         again == leaves /\ ~returns
     IN scanner' = [scanner EXCEPT !.newsletters = newsletters,
                                   !.total_scanned = total_scanned,
                                   !.calls = IF due THEN @ + 1 ELSE @,
                                   !.k = IF again THEN 0 ELSE @ + 1,
                                   !.offset = IF again THEN scanner.page_token ELSE @,
                                   !.pc = IF returns THEN "done" ELSE IF again THEN "list" ELSE "process",
                                   !.total_found = IF returns THEN Found(newsletters) ELSE @]
  /\ UNCHANGED <<batchvars, whitelist, verdict, answer, account, extracted>>

InitScanner ==
  \E limit \in ScanLimits \cup {All}, n \in InboxSizes, p \in 1..Len(ScanPatterns),
     cb \in {"none", "reports", "raises"} :
    /\ NoRequests({})
    /\ verdict = NoVerdict
    /\ answer = NoAnswer
    /\ account = NoAccount
    /\ extracted = NoExtract
    /\ scanner = [NoScanner EXCEPT !.pc = "list",
                                   !.scan_all = limit = All,
                                   !.max_results = limit,
                                   !.progress_callback = cb, !.inbox = n, !.pattern = p]

NextScanner ==
  \/ \E fails \in BOOLEAN : ListPage(fails)
  \/ ProcessOne

SpecScanner == InitScanner /\ [][NextScanner]_vars

\* the body of scan_newsletters is straight-line code: a step that can be
\* taken is taken
FairSpecScanner == SpecScanner /\ WF_vars(NextScanner)


\* ========================================================================
\* Properties
\* ========================================================================
SumCounts(r) == counts[r].auto + counts[r].manual + counts[r].failed

\* C1: the three counters always sum to the number of results appended so
\* far, results[k] is the outcome of the k-th candidate of the input, and a
\* returned summary has total = N = length of results = sum of the counters.
C1_BatchInvariant ==
  \A r \in Requests :
    /\ SumCounts(r) = Len(results[r])
    /\ Len(results[r]) <= Len(newsletter_list[r])
    /\ \A k \in 1..Len(results[r]) :
         /\ results[r][k].sender_email = newsletter_list[r][k].sender_email
         /\ results[r][k].unsubscribe_url = newsletter_list[r][k].unsubscribe_link.id
    /\ pc[r] = "returned" =>
         /\ Summary(r).total = Len(newsletter_list[r])
         /\ Len(Summary(r).results) = Summary(r).total
         /\ Summary(r).auto_success_count + Summary(r).manual_required_count
              + Summary(r).failed_count = Summary(r).total

C1_Witness ==
  \E r \in Requests :
    /\ pc[r] = "returned"
    /\ Len(results[r]) >= 2
    /\ counts[r].auto >= 1
    /\ counts[r].failed >= 1

\* C2: an exception raised while one candidate is processed does not stop
\* the batch: the item gets a failed result and the batch goes on.
ItemRaised(r, k) ==
  error[r].at = k /\ error[r].what \in {"ValueError", "TypeError"}

C2_ItemErrorIsolated ==
  \A r \in Requests : \A k \in 1..Len(newsletter_list[r]) :
    ItemRaised(r, k) =>
      /\ pc[r] # "raised"
      /\ Len(results[r]) >= k
      /\ ~results[r][k].success
      /\ results[r][k].method = "failed"
      /\ results[r][k].category = "failed"

\* C3: a result with success = TRUE has method header or browser.
SuccessMethod(res) == res.success => res.method \in {"header", "browser"}

C3_SuccessOnlyHeaderOrBrowser ==
  \A r \in Requests :
    /\ SuccessMethod(att[r].result)
    /\ SuccessMethod(att[r].browser_result)
    /\ \A k \in 1..Len(results[r]) : SuccessMethod(results[r][k])

C3_Witness ==
  \E r \in Requests : \E k \in 1..Len(results[r]) :
    results[r][k].success /\ results[r][k].method = "browser"

C5_NoRetryWhenRateLimited ==
  \A r \in Requests :
    RateLimited(att[r].http) =>
      /\ att[r].requests = 1
      /\ att[r].loads = 0
      /\ att[r].clicks = 0
      /\ att[r].apc = "done" => (~att[r].result.success /\ att[r].result.method = "failed")

\* C6: a browser session is open only inside _unsubscribe_browser; it is
\* quit on every way out, so none is open when the next attempt starts.
C6_SessionReleased ==
  \A r \in Requests :
    driver[r] => (pc[r] = "attempt" /\ att[r].apc \in {"get", "detect", "loop", "finally"})

C6_Witness ==
  \E r \in Requests :
    /\ att[r].apc = "done"
    /\ att[r].loads = 1
    /\ att[r].clicks >= 1
    /\ att[r].result.method = "failed"
    /\ ~driver[r]

\* C7: between the last HTTP/browser action of candidate k and the first of
\* candidate k+1 at least RATE_LIMIT_DELAY has been slept.
C7_Pacing ==
  \A r \in Requests : pace[r].gap # -1 => pace[r].gap >= RATE_LIMIT_DELAY

C7_Witness ==
  \E r \in Requests : pace[r].last >= 2 /\ pace[r].gap >= RATE_LIMIT_DELAY

\* the calls progress_callback(k, N, results[k]) for the results so far
NotifiedAll(r) ==
  notified[r] =
    [k \in 1..Len(results[r]) |->
       [index |-> k, total |-> Len(newsletter_list[r]), result |-> results[r][k]]]

\* a pause follows item k exactly when k < N
DelaysSoFar(r) ==
  LET n == Len(newsletter_list[r])
      done == Len(results[r])
  IN IF pc[r] = "sleep" \/ (pc[r] = "raised" /\ error[r].what = "callback")
       THEN delays[r] = done - 1
     ELSE IF done = n /\ n > 0 THEN delays[r] = n - 1
     ELSE delays[r] = done

\* an attempt runs only when all earlier items are recorded and notified
AttemptAfterRecord(r) ==
  pc[r] \in {"attempt", "record"} => Len(results[r]) = i[r] - 1

\* C8 as stated: every batch emits the notifications (k, N, results[k]),
\* k = 1..N in order, N of them when it returns, with a pause after
\* notification k exactly when k < N.
C8_ProgressNotifications ==
  \A r \in Requests :
    /\ NotifiedAll(r)
    /\ DelaysSoFar(r)
    /\ AttemptAfterRecord(r)
    /\ pc[r] = "returned" => Len(notified[r]) = Len(newsletter_list[r])

\* C8, amended: the same when a progress callback was passed; without a
\* callback nothing is emitted, the pauses are the same.
C8_ProgressNotificationsWithCallback ==
  \A r \in Requests :
    /\ progress_callback[r] => NotifiedAll(r)
    /\ ~progress_callback[r] => notified[r] = << >>
    /\ DelaysSoFar(r)
    /\ AttemptAfterRecord(r)
    /\ (pc[r] = "returned" /\ progress_callback[r]) =>
         Len(notified[r]) = Len(newsletter_list[r])

C8_Witness ==
  \E r \in Requests :
    /\ pc[r] = "returned"
    /\ progress_callback[r]
    /\ Len(notified[r]) = 2
    /\ delays[r] = 1

\* C9: never two attempts in progress, never two browser sessions open, and
\* an attempt begins only after the one before has its result.
C9_StrictlySerial ==
  /\ Cardinality({r \in Requests : pc[r] = "attempt"}) <= 1
  /\ Cardinality({r \in Requests : driver[r]}) <= 1
  /\ \A r \in Requests : pc[r] = "attempt" => Len(results[r]) = i[r] - 1

C12_CategoryDerivation ==
  \A r \in Requests : \A k \in 1..Len(results[r]) :
    LET e == results[r][k]
        manual == e.method \in {"manual_action_needed", "login_required", "captcha"}
    IN /\ e.category \in {"auto_success", "manual_required", "failed"}
       /\ e.category = "auto_success" <=> e.success
       /\ e.category = "manual_required" <=> (~e.success /\ manual)
       /\ e.category = "failed" <=> (~e.success /\ ~manual)

C12_Witness ==
  \E r \in Requests : \E k, m \in 1..Len(results[r]) :
    /\ results[r][k].method = "captcha" /\ results[r][k].category = "manual_required"
    /\ results[r][m].method = "timeout" /\ results[r][m].category = "failed"

\* C18: the tier is decided by the first rule that matches, in this order:
\* method header -> easy; no link -> medium; domain of the link in the
\* login-required set -> hard; scheme mailto -> hard; bulk-mail domain ->
\* medium; method body -> medium; otherwise medium.
Classified(r, k) == k \in 1..Len(difficulty[r]) /\ difficulty[r][k] # "whitelisted"

C18_FirstMatchOrder ==
  \A r \in Requests : \A k \in 1..Len(difficulty[r]) :
    LET c == newsletter_list[r][k]
        l == c.unsubscribe_link
    IN Classified(r, k) =>
         difficulty[r][k] =
           IF c.unsubscribe_method = "header" THEN "easy"
           ELSE IF l.id = "None" THEN "medium"
           ELSE IF l.domain = "login" THEN "hard"
           ELSE IF l.scheme = "mailto" THEN "hard"
           ELSE "medium"

\* C18, amended: as above, with one more rule after "no link": a link that
\* urlparse rejects -> medium, whatever its scheme.
C18_FirstMatchOrderWithParseError ==
  \A r \in Requests : \A k \in 1..Len(difficulty[r]) :
    LET c == newsletter_list[r][k]
        l == c.unsubscribe_link
    IN Classified(r, k) =>
         /\ difficulty[r][k] =
              IF c.unsubscribe_method = "header" THEN "easy"
              ELSE IF l.id = "None" THEN "medium"
              ELSE IF ~l.parseable THEN "medium"
              ELSE IF l.domain = "login" THEN "hard"
              ELSE IF l.scheme = "mailto" THEN "hard"
              ELSE "medium"
         /\ difficulty[r][k] = "easy" <=> c.unsubscribe_method = "header"

C18_Witness ==
  \E r \in Requests :
    /\ Classified(r, 1)
    /\ newsletter_list[r][1].unsubscribe_link = LinkMailto
    /\ newsletter_list[r][1].unsubscribe_method = "body"
    /\ difficulty[r][1] = "hard"

\* C19: a candidate that is not of method header and has a link is hard when
\* the domain of its sender is in the login-required set, also when the
\* domain of its link is not.
C19_SenderDomainHard ==
  \A r \in Requests : \A k \in 1..Len(difficulty[r]) :
    LET c == newsletter_list[r][k]
    IN ( /\ Classified(r, k)
         /\ c.unsubscribe_method # "header"
         /\ c.unsubscribe_link.id # "None"
         /\ c.sender_domain = "login" )
       => difficulty[r][k] = "hard"

\* C11: a candidate whose sender is in the allow-list gets the tier
\* whitelisted from the scan, and batch_unsubscribe called by the route
\* /unsubscribe never attempts a candidate whose sender is in the allow-list.
C11_ExcludedNeverAttempted ==
  \A r \in Requests :
    /\ \A k \in 1..Len(difficulty[r]) :
         newsletter_list[r][k].sender_email \in whitelist => difficulty[r][k] = "whitelisted"
    /\ pc[r] = "attempt" => newsletter_list[r][i[r]].sender_email \notin whitelist

\* the attempt of r has passed lines 71-100: the link was looked at
Dispatched(r) == att[r].apc \notin {"idle", "start"}

\* the result of lines 88-95
ExpiredOutcome(r) ==
  /\ att[r].apc = "done"
  /\ att[r].requests = 0
  /\ ~att[r].result.success
  /\ att[r].result.method = "failed"
  /\ att[r].result.message = "expired"

\* C13: an attempt ends with the expired outcome {success: false, method:
\* failed} exactly when its link matches an expiration pattern and has an
\* exp / expires / valid_until parameter with a timestamp in the past; a
\* link with a future or an unparsable timestamp goes on past the check.
C13_ExpiredExactly ==
  \A r \in Requests :
    LET l == att[r].link
    IN Dispatched(r) =>
         /\ ExpiredOutcome(r) <=> (l.pattern /\ l.param = "past")
         /\ l.param \in {"future", "unparsable"} =>
              (att[r].apc # "raised" /\ att[r].result.message # "expired")

\* the expiry check of lines 88-95 has let the link pass
PassedExpiryCheck(l) == ~l.pattern \/ (l.parseable /\ l.param # "past")

Current(r) == newsletter_list[r][i[r]]

\* candidate of method header with a valid link that is not expired, whose
\* one request was answered with status 200 and a body holding "unsubscribed"
HeaderLinkAnswered200Unsubscribed(r) ==
  /\ i[r] >= 1
  /\ Dispatched(r)
  /\ Current(r).unsubscribe_method = "header"
  /\ att[r].link.scheme = "http" /\ att[r].link.parseable
  /\ PassedExpiryCheck(att[r].link)
  /\ att[r].requests = 1
  /\ att[r].http.kind = "response" /\ att[r].http.status = 200
  /\ att[r].http.page.success_kw

\* the outcome of the attempt of r is {success: true, method: header}, and
\* once it is recorded its category is auto_success
HeaderSuccess(r) ==
  /\ att[r].apc = "done"
  /\ att[r].result.success /\ att[r].result.method = "header"
  /\ att[r].entries = 0
  /\ Len(results[r]) = i[r] =>
       (results[r][i[r]].success /\ results[r][i[r]].method = "header"
          /\ results[r][i[r]].category = "auto_success")

\* C15: for a candidate of method header with a valid, non-expired https
\* link, a response with status 200 and a body containing "unsubscribed"
\* gives the outcome {success: true, method: header}, category auto_success.
C15_HeaderEndToEnd ==
  \A r \in Requests : HeaderLinkAnswered200Unsubscribed(r) => HeaderSuccess(r)

\* C15, amended: ... provided the response shows no login indicator (login
\* path in its URL, password input, sign-in or authentication phrasing,
\* login-required domain) and no confirmation-email phrasing.
C15_HeaderEndToEndNoObstacle ==
  \A r \in Requests :
    LET pg == att[r].http.page
    IN ( /\ HeaderLinkAnswered200Unsubscribed(r)
         /\ ~(pg.login_url \/ pg.password_input \/ pg.login_text \/ pg.auth_text \/ pg.known_domain)
         /\ ~pg.confirm_text )
       => HeaderSuccess(r)

C15_Witness ==
  \E r \in Requests :
    /\ HeaderLinkAnswered200Unsubscribed(r)
    /\ att[r].http.page = PageDone
    /\ pc[r] = "returned"
    /\ Len(results[r]) = 1
    /\ results[r][1].category = "auto_success"

\* the phases of _unsubscribe_browser
InBrowser(r) == att[r].apc \in {"browser", "get", "detect", "loop", "finally"}

\* the request of the HTTP path ran into requests.Timeout
RequestTimedOut(r) == att[r].requests = 1 /\ att[r].http.kind = "Timeout"

\* every element search of the browser path timed out: lines 505-512
NoElementResult(r) ==
  /\ att[r].apc = "done"
  /\ att[r].entries = 1
  /\ att[r].fault = "none"
  /\ att[r].result.message = "no button"

TimeoutsHandled(r) ==
  /\ RequestTimedOut(r) =>
       /\ att[r].entries = 1
       /\ att[r].apc # "raised"
       /\ InBrowser(r) => (~att[r].result.success /\ att[r].result.method = "timeout")
  /\ att[r].fault = "load_timeout" =>
       /\ att[r].apc \in {"finally", "done"}
       /\ ~att[r].browser_result.success /\ att[r].browser_result.method = "timeout"
       /\ att[r].apc = "done" => att[r].result = att[r].browser_result
  /\ NoElementResult(r) =>
       (~att[r].result.success /\ att[r].result.method = "manual_action_needed")

HttpFailed(r) ==
  /\ att[r].requests = 1
  /\ \/ att[r].http.kind \in {"Timeout", "RequestException"}
     \/ att[r].http.kind = "response" /\ ~(200 <= att[r].http.status /\ att[r].http.status < 400)

BrowserFailed(r) == att[r].fault \in {"start", "crash"}

\* C17: a request timeout, a connection error, a status outside 2xx/3xx, a
\* browser that does not start or crashes: none leaves
\* unsubscribe_from_newsletter as an exception, each is returned as an
\* outcome with success false and method timeout or failed.
C17_FailuresReturnedAsOutcome ==
  \A r \in Requests :
    (HttpFailed(r) \/ BrowserFailed(r)) =>
      /\ att[r].apc # "raised"
      /\ att[r].apc = "done" =>
           (~att[r].result.success /\ att[r].result.method \in {"timeout", "failed"})

\* C17, amended: none leaves as an exception; a failure of the request is
\* the result of the HTTP path (success false, method timeout or failed),
\* which hands the link to the browser; a failure of the browser is the
\* outcome of the attempt (success false, method failed).
C17_FailuresBecomeResults ==
  \A r \in Requests :
    /\ (HttpFailed(r) \/ BrowserFailed(r)) => att[r].apc # "raised"
    /\ HttpFailed(r) =>
         /\ att[r].entries = 1
         /\ InBrowser(r) =>
              /\ ~att[r].result.success
              /\ att[r].result.method = (IF att[r].http.kind = "Timeout" THEN "timeout" ELSE "failed")
    /\ BrowserFailed(r) =>
         /\ att[r].apc \in {"finally", "done"}
         /\ ~att[r].browser_result.success /\ att[r].browser_result.method = "failed"
         /\ att[r].apc = "done" =>
              (~att[r].result.success /\ att[r].result.method = "failed")

C17_Witness ==
  \E r \in Requests :
    /\ att[r].apc = "done"
    /\ att[r].http.kind = "response" /\ att[r].http.status = 404
    /\ att[r].fault = "crash"
    /\ att[r].result.method = "failed"

\* C27: on the same final URL and page content the detector of the HTTP
\* path and the detector of the browser path give the same answer: a login
\* wall iff the URL holds /login, /signin, /sign-in or /auth, or there is a
\* password input, or the text holds 'sign in', 'log in', 'login required',
\* 'please login' or 'authentication required', or the domain is in the
\* login-required set.
C27_OneLoginRule ==
  verdict.asked =>
    LET pg == verdict.page
        wall == pg.login_url \/ pg.password_input \/ pg.login_text \/ pg.auth_text
                  \/ pg.known_domain
    IN /\ verdict.http <=> wall
       /\ verdict.browser <=> wall

\* the address e, ignoring case, was stored before the last call
WasStored(e) == \E x \in answer.before : Lower(x) = Lower(e)

\* the store holds lower-case addresses only, each at most once
LowerCaseSet == \A x \in whitelist : Lower(x) = x

\* C28: the store behaves as a set of lower-cased addresses: no two entries
\* for one address ignoring case; add returns True iff the address was
\* absent and a duplicate add changes nothing; remove returns True iff the
\* address was present; is_whitelisted(e) is true iff e, ignoring case, is
\* in the set; clear_whitelist without confirm=True changes nothing.
C28_StoreIsSet ==
  /\ LowerCaseSet
  /\ answer.op = "add" =>
       /\ answer.ret <=> ~WasStored(answer.arg)
       /\ whitelist = answer.before \cup {Lower(answer.arg)}
  /\ answer.op = "remove" =>
       /\ answer.ret <=> WasStored(answer.arg)
       /\ whitelist = answer.before \ {Lower(answer.arg)}
  /\ answer.op = "is_whitelisted" =>
       /\ answer.ret <=> WasStored(answer.arg)
       /\ whitelist = answer.before
  /\ (answer.op = "clear" /\ ~answer.confirm) => (whitelist = answer.before /\ ~answer.ret)

\* C28, amended: the same for a non-empty address and a database call that
\* does not fail; for the empty address and on a database error add, remove
\* and is_whitelisted return False and clear_whitelist(confirm=True) returns
\* False, and the store is unchanged.
C28_StoreIsSetUnlessError ==
  LET e == answer.arg
      works == e # 0 /\ answer.db_ok
  IN /\ LowerCaseSet
     /\ answer.op = "add" =>
          /\ answer.ret <=> (works /\ ~WasStored(e))
          /\ whitelist = IF works THEN answer.before \cup {Lower(e)} ELSE answer.before
     /\ answer.op = "remove" =>
          /\ answer.ret <=> (works /\ WasStored(e))
          /\ whitelist = IF works THEN answer.before \ {Lower(e)} ELSE answer.before
     /\ answer.op = "is_whitelisted" =>
          /\ answer.ret <=> (works /\ WasStored(e))
          /\ whitelist = answer.before
     /\ answer.op = "clear" =>
          /\ answer.ret <=> (answer.confirm /\ answer.db_ok)
          /\ whitelist = IF answer.confirm /\ answer.db_ok THEN {} ELSE answer.before

C28_Witness ==
  /\ answer.op = "add"
  /\ answer.arg = 11
  /\ answer.before = {1, 2}
  /\ answer.db_ok
  /\ ~answer.ret

\* the OAuth flow was completed with another account than the one asked for
\* and the profile of that account was read
WrongAccount ==
  /\ account.pc = "done"
  /\ account.flow_ran
  /\ account.profile_ok
  /\ Lower(account.login) # Lower(account.email)

\* C29: when account_email is given and the user completes the OAuth flow
\* with a different account, get_gmail_service raises ValueError, which the
\* /accounts/add route reports as a 400 'Account mismatch' response.
C29_MismatchIs400 ==
  WrongAccount =>
    /\ account.raised = "ValueError"
    /\ account.status = 400
    /\ account.message = "Account mismatch. Please log in with the correct account."

\* the least number of a non-empty set of numbers
Least(S) == CHOOSE k \in S : \A j \in S : k <= j

\* C21: parse_unsubscribe_header returns the first angle-bracketed http(s)
\* URI of the header value whatever its position relative to mailto tokens;
\* if there is none, the first angle-bracketed mailto URI; if there is
\* neither, or no bracketed token at all, it returns None.
C21_HeaderPreference ==
  (extracted.fn = "parse_unsubscribe_header" /\ extracted.done) =>
    LET hv == extracted.header_value
        https == { k \in 1..Len(hv) : hv[k].kind \in {"http", "https"} }
        mailtos == { k \in 1..Len(hv) : hv[k].kind = "mailto" }
    IN IF https # {} THEN extracted.link = hv[Least(https)]
       ELSE IF mailtos # {} THEN extracted.link = hv[Least(mailtos)]
       ELSE extracted.link = NoToken

C21_Witness ==
  /\ extracted.fn = "parse_unsubscribe_header"
  /\ extracted.done
  /\ Len(extracted.header_value) = 3
  /\ extracted.header_value[1].kind = "mailto"
  /\ extracted.header_value[2].kind = "bare"
  /\ extracted.link = Tok("https", 3)

\* C22: find_unsubscribe_link_in_body returns the destination of the first
\* hyperlink, in document order, whose destination or visible text contains
\* 'unsubscribe' and whose destination scheme is http or https; a mailto
\* destination is never returned; a body in which neither a hyperlink nor a
\* URL of the text mentions 'unsubscribe' yields None.
C22_FirstQualifyingLink ==
  (extracted.fn = "find_unsubscribe_link_in_body" /\ extracted.done) =>
    LET b == extracted.email_body
        good == { k \in 1..Len(b) : /\ b[k].kind = "a"
                                    /\ b[k].href_token \/ b[k].text_token
                                    /\ b[k].scheme = "https" }
    IN /\ good # {} => extracted.link = Tok("https", Least(good))
       /\ extracted.link.kind # "mailto"
       /\ (\A k \in 1..Len(b) : ~b[k].href_token /\ ~b[k].text_token) => extracted.link = NoToken

C22_Witness ==
  /\ extracted.fn = "find_unsubscribe_link_in_body"
  /\ extracted.done
  /\ Len(extracted.email_body) = 2
  /\ extracted.email_body[1] = Item("a", "mailto", TRUE, TRUE, 1)
  /\ extracted.email_body[2] = Item("a", "https", FALSE, TRUE, 2)
  /\ extracted.link = Tok("https", 2)

\* _process_message was called and returned a candidate
Produced ==
  /\ extracted.fn = "_process_message"
  /\ extracted.done
  /\ extracted.candidate.produced

\* C23: for every candidate of _process_message, unsubscribe_method is
\* header iff the parser of the List-Unsubscribe header returned a link
\* (then unsubscribe_link is that link and the body is not scanned), body
\* iff the header yielded no link and the search of the body returned one,
\* none iff unsubscribe_link is None.
C23_MethodTellsSource ==
  Produced =>
    LET c == extracted.candidate
    IN /\ c.unsubscribe_method = "header" <=> extracted.parsed # NoToken
       /\ extracted.parsed # NoToken =>
            (c.unsubscribe_link = extracted.parsed /\ ~extracted.body_scanned)
       /\ c.unsubscribe_method = "body" <=> (extracted.parsed = NoToken /\ extracted.found # NoToken)
       /\ c.unsubscribe_method = "body" => c.unsubscribe_link = extracted.found
       /\ c.unsubscribe_method = "none" <=> c.unsubscribe_link = NoToken

C23_Witness ==
  /\ Produced
  /\ extracted.message.headers = <<[name |-> "List-Unsubscribe", value |-> 2]>>
  /\ extracted.message.body = <<Item("a", "https", TRUE, FALSE, 7)>>
  /\ extracted.candidate.unsubscribe_method = "header"
  /\ extracted.candidate.unsubscribe_link = Tok("mailto", 3)
  /\ ~extracted.body_scanned

\* the places of the headers of the message with this name in lower case
Occurrences(name) ==
  { k \in 1..Len(extracted.message.headers) : LowerName(extracted.message.headers[k].name) = name }

FirstValue(name) == extracted.message.headers[Least(Occurrences(name))].value

\* C24: when the header list holds several headers named from, subject,
\* date or list-unsubscribe (compared without case), the sender, subject,
\* date and unsubscribe directive of the candidate are those of the first
\* occurrence of each.
C24_FirstOccurrenceWins ==
  Produced =>
    LET c == extracted.candidate
    IN /\ (Occurrences("from") # {} /\ FirstValue("from") # 0) => c.sender_email = FirstValue("from")
       /\ Occurrences("subject") # {} => c.subject = FirstValue("subject")
       /\ Occurrences("date") # {} => c.date = IsoDate(FirstValue("date"))
       /\ (Occurrences("list-unsubscribe") # {} /\ FirstValue("list-unsubscribe") = 1) =>
            c.unsubscribe_link = Tok("https", 2)

\* the number of messages handed to _process_message so far
Processed == scanner.offset + scanner.k

\* the number of the first n messages of the inbox whose fault is in faults
CountFaults(pattern, n, faults) ==
  Cardinality({ j \in 1..n : MessageAt(pattern, j).fault \in faults })

\* without an error of the list call and without a callback that raises,
\* a scan that has returned went through the whole inbox or up to its limit
ScanWentOn ==
  (scanner.pc = "done" /\ scanner.error = "none" /\ scanner.progress_callback # "raises") =>
    Processed = (IF scanner.scan_all THEN scanner.inbox ELSE Smaller(scanner.inbox, scanner.max_results))

\* C25: a decoding or structural failure while processing one message
\* produces no candidate for that message and never aborts the scan: the
\* remaining messages of the page and the following pages are still
\* processed.
C25_FailureGivesNoCandidate ==
  /\ Found(scanner.newsletters) = CountFaults(scanner.pattern, Processed, {"none"})
  /\ ScanWentOn

\* C25, amended: a failure of the fetch or of the structure of the headers
\* produces no candidate; a failure while reading the body is absorbed and
\* the message still produces a candidate, as one without a body; in both
\* cases the scan goes on with the remaining messages and pages.
C25_FailureSkipsOrIsAbsorbed ==
  /\ Found(scanner.newsletters) = CountFaults(scanner.pattern, Processed, {"none", "body"})
  /\ ScanWentOn

C25_Witness ==
  /\ scanner.pc = "done"
  /\ scanner.error = "none"
  /\ scanner.pattern = 2
  /\ scanner.scan_all
  /\ Processed = MaxInbox
  /\ Found(scanner.newsletters) < Processed
  /\ CountFaults(2, Processed, {"body"}) > 0

\* every list call asks for at most 100 ids and for no more than what is
\* left of max_results
BatchWithinQuota ==
  /\ scanner.batch_size <= 100
  /\ (scanner.batch_size > 0 /\ ~scanner.scan_all) => scanner.batch_size <= scanner.quota

LimitReached == ~scanner.scan_all /\ scanner.total_scanned >= scanner.max_results
PagesExhausted == scanner.pages > 0 /\ (scanner.page_len = 0 \/ scanner.page_token = -1)

\* before another list call none of the conditions that end the scan holds
KeepsFetching == scanner.pc = "list" => (~LimitReached /\ ~PagesExhausted)

\* C26: scan_newsletters asks for at most 100 ids per list call and never
\* for more than the remaining quota; it keeps fetching pages until
\* total_scanned reaches max_results, a page is empty, or no nextPageToken
\* is returned, and then terminates; with max_results = "all" only an empty
\* page or a missing nextPageToken ends the scan.
C26_PagingEndsOnlyAtLimitOrEnd ==
  /\ [](BatchWithinQuota /\ KeepsFetching)
  /\ [](scanner.pc = "done" => (LimitReached \/ PagesExhausted))
  /\ <>(scanner.pc = "done")

\* C26, amended: as above, and a list call that raises also ends the scan,
\* which then returns what it has with an error field.
C26_PagingEndsAtLimitEndOrError ==
  /\ [](BatchWithinQuota /\ KeepsFetching)
  /\ [](scanner.pc = "done" => (LimitReached \/ PagesExhausted \/ scanner.error # "none"))
  /\ <>(scanner.pc = "done")

C26_Witness ==
  /\ scanner.pc = "done"
  /\ scanner.max_results = 250
  /\ scanner.pages = 3
  /\ scanner.batch_size = 50
  /\ scanner.error = "none"
  /\ scanner.total_scanned = 250

\* C30: in the result of scan_newsletters, total_found is the number of
\* scanned newsletters for which an unsubscribe link was found; a message
\* with unsubscribe_method none is not counted.
C30_TotalFoundCountsLinks ==
  scanner.pc = "done" => scanner.total_found = scanner.newsletters["header"] + scanner.newsletters["body"]

\* ------------------------------------------------------------------------
\* C33..C38: the paths of one attempt
\* ------------------------------------------------------------------------
\* _unsubscribe_browser has left its pattern loop after at least one click
ClickedAndLeft(r) == att[r].apc = "finally" /\ att[r].clicks >= 1

Started(r) ==
  att[r].requests > 0 \/ att[r].entries > 0 \/ att[r].loads > 0 \/ driver[r]

\* the link is http(s) and the expiry check let it pass
Eligible(l) == l # NoLink /\ l.scheme = "http" /\ PassedExpiryCheck(l)

C37_OutcomeCarriesOriginalLink ==
  \A r \in Requests :
    (att[r].apc = "done" /\ att[r].result.method \in Methods) =>
      /\ att[r].result.unsubscribe_url = att[r].link.id
      /\ (att[r].result.unsubscribe_url = "None") <=> (att[r].link = NoLink)

\* an attempt that was escalated to the browser has returned its outcome
C37_Witness ==
  \E r \in Requests :
    /\ att[r].apc = "done"
    /\ att[r].entries = 1
    /\ att[r].loads = 1
    /\ att[r].result.method = "browser"
    /\ att[r].result.unsubscribe_url = att[r].link.id

\* C38 (as stated): every attempt that returns, returns an outcome record
\* with a boolean success and one of the seven methods.
C38_AlwaysAnOutcomeRecord ==
  \A r \in Requests :
    att[r].apc = "done" =>
      /\ att[r].result.success \in BOOLEAN
      /\ att[r].result.method \in Methods

\* C39 (as stated): every message id handled is counted exactly once in
\* total_scanned, also when the progress callback raises; total_scanned
\* never exceeds max_results; total_found is the number of candidates and
\* at most total_scanned.
C39_EachMessageCountedOnce ==
  /\ scanner.total_scanned = Processed
  /\ ~scanner.scan_all => scanner.total_scanned <= scanner.max_results
  /\ Found(scanner.newsletters) <= scanner.total_scanned
  /\ (scanner.pc = "done" /\ scanner.error = "none") =>
       scanner.total_found = Found(scanner.newsletters)

\* ------------------------------------------------------------------------
\* C31: the outcome of the HTTP path by status code and page content
\* ------------------------------------------------------------------------
\* the server has answered with a status code, and the result is there
Answered == verdict.asked /\ verdict.response.kind = "response"

\* the answer shows one of the login indicators
ShowsLogin ==
  \/ verdict.response.page.login_url
  \/ verdict.response.page.password_input
  \/ verdict.response.page.login_text
  \/ verdict.response.page.auth_text
  \/ verdict.response.page.known_domain

\* C31: for a status in [200, 400) other than 429 and 503 the first check
\* that matches decides, in the order login indicators (login_required),
\* confirmation phrasing (manual_action_needed), otherwise {success: true,
\* method: header} with or without a success keyword; 429, 503 and every
\* status outside [200, 400) give {success: false, method: failed}.
C31_HttpOutcomeByStatusAndContent ==
  Answered =>
    LET st  == verdict.response.status
        res == verdict.result
    IN IF st >= 200 /\ st < 400 /\ st \notin {429, 503}
         THEN IF ShowsLogin
                THEN res.success = FALSE /\ res.method = "login_required"
              ELSE IF verdict.response.page.confirm_text
                THEN res.success = FALSE /\ res.method = "manual_action_needed"
              ELSE res.success = TRUE /\ res.method = "header"
         ELSE res.success = FALSE /\ res.method = "failed"

\* a page with a login indicator, the confirmation phrasing and a success
\* keyword at once, answered with a redirect status, has been decided
C31_Witness ==
  /\ Answered
  /\ verdict.response.status = 302
  /\ ShowsLogin
  /\ verdict.response.page.confirm_text
  /\ verdict.response.page.success_kw
  /\ verdict.result.method = "login_required"

\* ------------------------------------------------------------------------
\* C32: the obstacles of the browser path
\* ------------------------------------------------------------------------
\* the first obstacle of the page in the order login wall, challenge
\* widget, complex flow; "none" if the page shows none
FirstObstacle(pg) ==
  IF pg.login_url \/ pg.password_input \/ pg.login_text THEN "login_required"
  ELSE IF pg.captcha THEN "captcha"
  ELSE IF pg.prefs_text /\ pg.checkboxes > 3 THEN "manual_action_needed"
  ELSE "none"

\* the page was loaded and _unsubscribe_browser has its result
PageJudged(r) ==
  att[r].apc = "finally" /\ att[r].loads = 1 /\ att[r].fault = "none"

\* C32: the obstacles are looked for in the order login wall, challenge
\* widget, complex flow, and the first one found fixes the outcome
\* (login_required, captcha, manual_action_needed); a complex flow needs the
\* preference phrasing and more than 3 checkboxes; with an obstacle no
\* control of the page is clicked or checked.
C32_FirstObstacleDecides ==
  \A r \in Requests :
    PageJudged(r) =>
      IF FirstObstacle(att[r].page) # "none"
        THEN /\ att[r].browser_result.success = FALSE
             /\ att[r].browser_result.method = FirstObstacle(att[r].page)
             /\ att[r].browser_result.message = "obstacle"
             /\ att[r].clicks = 0
             /\ ~att[r].checked
        ELSE att[r].browser_result.message # "obstacle"

\* a page with a login wall, a challenge widget and a complex flow at once
\* has been judged
C32_Witness ==
  \E r \in Requests :
    /\ PageJudged(r)
    /\ att[r].page.password_input
    /\ att[r].page.captcha
    /\ att[r].page.prefs_text
    /\ att[r].page.checkboxes = 4
    /\ att[r].browser_result.method = "login_required"
    /\ att[r].clicks = 0

\* ------------------------------------------------------------------------
\* C35, C36: the body chosen from a part tree
\* ------------------------------------------------------------------------
RECURSIVE LeafSeq(_)
\* the leaves of a part tree in depth-first order
LeafSeq(parts) ==
  IF parts = << >> THEN << >>
  ELSE (IF Head(parts).has_parts THEN LeafSeq(Head(parts).parts) ELSE <<Head(parts)>>)
         \o LeafSeq(Tail(parts))

\* the contents of the leaves of the given type that have a content, in
\* depth-first order
ContentsOf(parts, mimeType) ==
  LET leaves == SelectSeq(LeafSeq(parts), LAMBDA p : p.mimeType = mimeType /\ p.data > 0)
  IN [k \in 1..Len(leaves) |-> decode_data(leaves[k].data)]

\* C35 (as stated): whenever the part tree has an html leaf with a content,
\* the body returned is the content of the first such leaf in depth-first
\* order, never that of a plain-text leaf, also when plain-text leaves sit
\* in a nested multipart before the html leaf.
C35_HtmlLeafPreferred ==
  (extracted.done /\ ContentsOf(extracted.parts, "text/html") # << >>) =>
    extracted.body = ContentsOf(extracted.parts, "text/html")[1]

\* C36 (as stated): when no html leaf has a content, the body returned is
\* the content of the first plain-text leaf in traversal order, not of a
\* later one.
C36_FirstPlainLeaf ==
  (/\ extracted.done
   /\ ContentsOf(extracted.parts, "text/html") = << >>
   /\ ContentsOf(extracted.parts, "text/plain") # << >>) =>
    extracted.body = ContentsOf(extracted.parts, "text/plain")[1]

====
